---- MODULE Spec2Model ----
(***************************************************************************)
(* Comic generation pipeline (src/lib/comic-pipeline.ts) over the          *)
(* in-memory job store (src/lib/jobs.ts).                                  *)
(*                                                                         *)
(* One run of processComicJob(jobId) is modelled as a cooperative          *)
(* single-threaded process: every action is either a synchronous segment   *)
(* of the code between two job-record writes, or the continuation that     *)
(* runs when an awaited external operation settles.  Timers (the global    *)
(* timeout of processComicJob and the deferred cleanup) are macrotasks and *)
(* can only run while the pipeline is suspended at an await.               *)
(***************************************************************************)
EXTENDS Integers, Sequences, FiniteSets, TLC

\* ------------------------------------------------------------------ bounds
MaxPanels == 2
MaxScenes == 3
MaxRetries == 3
MaxPdfPanels == 13
MaxTextLen == 9
MaxBudget == 3
MaxJobPanels == 1

\* ------------------------------------------------------- program constants
COMIC_TIMEOUT == 600000
CLEANUP_TIMEOUT == 86400000
MAX_WORDS == 10000
\* Variant: the image call is given one more retry.
ImageRetries_Three == 2 + 1

ImageRetries == 2

\* The single job id handed to processComicJob in this model.
jobId == "job1"

\* ------------------------------------------------------------------ errors
\* A thrown JavaScript value: an Error instance with a message, or any other
\* value (a string, an object ...), for which `instanceof Error` is false.
MkError(msg) == [isError |-> TRUE, message |-> msg]
NoError == [isError |-> FALSE, message |-> "<none>"]

TimeoutError == MkError("Comic job timeout")
TooLongError == MkError("Story too long. Max 10000 words.")
ScriptCountError(got, want) ==
  MkError("OpenAI returned " \o ToString(got) \o " scenes instead of requested "
          \o ToString(want) \o " scenes")
\* Variant: the fetch error does not name the HTTP status.
FetchStatusError_NoStatus(status) == MkError("Failed to fetch image")

FetchStatusError(status) == MkError("Failed to fetch image: " \o ToString(status))
FsError(op) == MkError("EIO: i/o error, " \o op)

\* Values an external client call (chat completion, image generation) may throw.
ThrownValues ==
  {MkError("upstream error A"), MkError("upstream error B"),
   [isError |-> FALSE, message |-> "thrown non-Error value"]}

\* -------------------------------------------------------------------- text
\* A story text is abstracted to what the pipeline looks at: whether it is
\* defined, how many whitespace-separated words it holds, and whether its
\* whitespace is already normalised (trimmed, single spaces).
NoText == [defined |-> FALSE, words |-> 0, clean |-> TRUE]
MkText(w, c) == [defined |-> TRUE, words |-> w, clean |-> c]

cleanText(t) == MkText(t.words, TRUE)

\* --------------------------------------------------------------- job store

\* createJob: a fresh record has no stage and no result field.
createJob(type, d) == [type |-> type, status |-> "pending", progress |-> 0, data |-> d]

updateJob(store, id, updates) ==
  IF id \notin DOMAIN store THEN store
  ELSE LET job == store[id]
           \* Object.assign(job, updates)
           assigned == [k \in (DOMAIN job) \cup (DOMAIN updates) |->
                          IF k \in DOMAIN updates THEN updates[k] ELSE job[k]]
       IN  [store EXCEPT ![id] = assigned]

getJob(store, id) == store[id]

\* ---------------------------------------------------------------- withRetry
\* for (let attempt = 0; attempt <= opts.retries; attempt++)
LoopContinues(attempt, retries) == attempt <= retries

\* Variant: the delay grows linearly with the attempt.
BackoffDelay_Linear(baseDelayMs, attempt) == baseDelayMs * (attempt + 1)

\* opts.baseDelayMs * Math.pow(2, attempt)
BackoffDelay(baseDelayMs, attempt) == baseDelayMs * (2 ^ attempt)

\* throw lastError instanceof Error ? lastError : new Error('Operation failed')
FinalError(lastError) == IF lastError.isError THEN lastError ELSE MkError("Operation failed")

IdleRetry ==
  [phase |-> "idle", kind |-> "none", retries |-> 0, baseDelayMs |-> 0, attempt |-> 0,
   lastError |-> NoError, lastThrown |-> NoError, value |-> "<none>", error |-> NoError,
   calls |-> 0, waits |-> <<>>, okCount |-> 0, okValue |-> "<none>", okAtCall |-> 0]

\* Entry of withRetry up to the first await: the loop test and the first fn().
StartRetry(kind, retries, baseDelayMs) ==
  IF LoopContinues(0, retries)
  THEN [IdleRetry EXCEPT !.phase = "calling", !.kind = kind, !.retries = retries,
                         !.baseDelayMs = baseDelayMs, !.calls = 1]
  ELSE [IdleRetry EXCEPT !.phase = "threw", !.kind = kind, !.retries = retries,
                         !.baseDelayMs = baseDelayMs, !.error = FinalError(NoError)]

\* ----------------------------------------------------------- generateScript
NotAString == "<not a string>"

IsString(x) == x # NotAString

SeqsUpTo(S, n) == UNION {[1..k -> S] : k \in 0..n}

\* completion.choices[0]?.message?.content?.trim() of the script call:
\*   empty    no choice, no content, or whitespace only
\*   nobrace  text without '{' or without '}'
\*   badjson  text whose '{'..'}' slice JSON.parse rejects
\*   object   text (code fences or not) whose '{'..'}' slice parses to an object
EmptyContent == [kind |-> "empty", scenesIsArray |-> FALSE, scenes |-> <<>>]

ScriptContents ==
  {EmptyContent,
   [kind |-> "nobrace", scenesIsArray |-> FALSE, scenes |-> <<>>],
   [kind |-> "badjson", scenesIsArray |-> FALSE, scenes |-> <<>>],
   [kind |-> "object", scenesIsArray |-> FALSE, scenes |-> <<>>]}
    \cup {[kind |-> "object", scenesIsArray |-> TRUE, scenes |-> seq] :
            seq \in SeqsUpTo(
              {[title |-> "t1", visual |-> "v1", dialogue_telugu |-> "d1"],
               [title |-> NotAString, visual |-> "v2", dialogue_telugu |-> "d2"],
               [title |-> "t3", visual |-> NotAString, dialogue_telugu |-> "d3"],
               [title |-> "t4", visual |-> "v4", dialogue_telugu |-> NotAString]},
              MaxScenes)}

parseJsonFromModel(content) ==
  IF content.kind = "object"
  THEN [isNull |-> FALSE, scenesIsArray |-> content.scenesIsArray, scenes |-> content.scenes]
  ELSE [isNull |-> TRUE, scenesIsArray |-> FALSE, scenes |-> <<>>]

\* typeof scene?.visual === 'string' && typeof scene?.dialogue_telugu === 'string'
IsSceneJSON(s) == IsString(s.visual) /\ IsString(s.dialogue_telugu)

\* Array.prototype.slice(0, n)
SliceTo(seq, n) == SubSeq(seq, 1, IF Len(seq) < n THEN Len(seq) ELSE n)

\* Variant: the response is truncated before invalid scenes are dropped.
FilteredScenes_SliceFirst(rawScenes, panelCount) ==
  LET kept == SelectSeq(SliceTo(rawScenes, panelCount), IsSceneJSON)
  IN  [k \in 1..Len(kept) |->
         [title |-> kept[k].title, visual |-> kept[k].visual,
          dialogue_telugu |-> kept[k].dialogue_telugu]]

FilteredScenes(rawScenes, panelCount) ==
  LET kept == SliceTo(SelectSeq(rawScenes, IsSceneJSON), panelCount)
  IN  [k \in 1..Len(kept) |->
         [title |-> kept[k].title, visual |-> kept[k].visual,
          dialogue_telugu |-> kept[k].dialogue_telugu]]

\* Variant: the scene count is not validated.
SceneCountMismatch_Never(scenes, panelCount) == FALSE

\* if (scenes.length !== opts.panelCount) throw ...
SceneCountMismatch(scenes, panelCount) == Len(scenes) # panelCount

\* generateScript after the model call returned `content`.
generateScript(content, panelCount) ==
  IF content.kind = "empty"
  THEN [ok |-> FALSE, scenes |-> <<>>,
        error |-> MkError("OpenAI returned empty content for script generation")]
  ELSE LET parsed == parseJsonFromModel(content)
       IN  IF parsed.isNull \/ ~parsed.scenesIsArray
           THEN [ok |-> FALSE, scenes |-> <<>>,
                 error |-> MkError("Failed to parse JSON from OpenAI response for script generation")]
           ELSE LET scenes == FilteredScenes(parsed.scenes, panelCount)
                IN  IF SceneCountMismatch(scenes, panelCount)
                    THEN [ok |-> FALSE, scenes |-> <<>>,
                          error |-> ScriptCountError(Len(scenes), panelCount)]
                    ELSE [ok |-> TRUE, scenes |-> scenes, error |-> NoError]

\* ------------------------------------------------------- generatePanelImage
ImageUrl == "http://x/y.png"

\* Shapes replicate.run may resolve to.
NullOutput ==
  [falsy |-> TRUE, str |-> NotAString, first |-> NotAString, url |-> NotAString,
   outputFirst |-> NotAString]
StringOutput(s) == [NullOutput EXCEPT !.falsy = (s = ""), !.str = s]
ArrayOutput(x) == [NullOutput EXCEPT !.falsy = FALSE, !.first = x]
UrlObjectOutput(x) == [NullOutput EXCEPT !.falsy = FALSE, !.url = x]
OutputObjectOutput(x) == [NullOutput EXCEPT !.falsy = FALSE, !.outputFirst = x]

\* Variant: the object-with-output-array shape is not recognised.
normalizeReplicateOutputUrl_NoOutputArray(output) ==
  IF output.falsy THEN NotAString
  ELSE IF IsString(output.str) THEN output.str
  ELSE IF IsString(output.first) THEN output.first
  ELSE IF IsString(output.url) THEN output.url
  ELSE NotAString

normalizeReplicateOutputUrl(output) ==
  IF output.falsy THEN NotAString
  ELSE IF IsString(output.str) THEN output.str
  ELSE IF IsString(output.first) THEN output.first
  ELSE IF IsString(output.url) THEN output.url
  ELSE IF IsString(output.outputFirst) THEN output.outputFirst
  ELSE NotAString

\* Values the operation given to withRetry may resolve to, per caller.
FnValues(kind) ==
  CASE kind = "analyze" -> {"", "summary of the story"}
    [] kind = "script" -> ScriptContents
    [] kind = "image" ->
         {NullOutput, StringOutput(ImageUrl), StringOutput(""),
          ArrayOutput(ImageUrl), ArrayOutput(NotAString), ArrayOutput(""),
          UrlObjectOutput(ImageUrl), UrlObjectOutput(""),
          OutputObjectOutput(ImageUrl), OutputObjectOutput(NotAString),
          OutputObjectOutput(""),
          [NullOutput EXCEPT !.falsy = FALSE, !.url = ImageUrl,
                             !.outputFirst = "http://x/other.png"]}
    [] OTHER -> {"value A", "value B"}

\* ------------------------------------------------------------------- state
VARIABLES
  jobStore,     \* jobs.ts jobStore: job id -> Job record
  writes,       \* history: the updates of every updateJob call that found the job
  pc,           \* position of processComicJobInternal
  timer,        \* the COMIC_TIMEOUT timer of processComicJob
  race,         \* state of Promise.race([processComicJobInternal, timeoutPromise])
  thrown,       \* the error processComicJobInternal rejected with
  caught,       \* the error handled by the catch block of processComicJob
  threwAt,      \* history: the position at which processComicJobInternal rejected
  started,      \* history: withRetry invocations and fetch calls issued, per stage and panel
  fetchStatus,  \* res.status of the response in downloadToBuffer
  data,         \* local `data` (job.data as ComicJobData)
  storyText,    \* local `storyText`
  cleanedText,  \* local `cleanedText`
  summary,      \* local `summary`
  scenes,       \* local `scenes`
  panels,       \* local `panels`
  i,            \* panel loop index
  replicateUrl, \* generatePanelImage: local `replicateUrl`
  panelPaths,   \* buildComicPdf: panelFiles.slice(0, panelCount)
  embedded,     \* buildComicPdf: number of panel images embedded so far
  pdfDoc,       \* buildComicPdf: pdfDoc with its pages, pageIndex and loop variable i
  retry,        \* the withRetry invocation in progress
  files,        \* files on disk owned by the job
  pdfWrites,    \* history: how many times the PDF file was written
  wdIn,         \* wrapDialogue alone: its arguments
  wdOut,        \* wrapDialogue alone: the returned lines
  world,        \* several jobs at once: the job store, the file system, each pipeline
  hist,         \* several jobs at once: the events each job has taken, in order
  alone,        \* several jobs at once: per job, the world in which only it took its events
  cwd,          \* the endpoints: process.cwd() of the server, as a path from the root
  resp,         \* the endpoints: the response of the last GET request
  route,        \* the route's .catch reaction to the promise of processComicJob
  cleanup,      \* the CLEANUP_TIMEOUT timer of scheduleCleanup and how its callback ended
  gsIn,         \* input of a stand-alone generateScript evaluation
  gsOut         \* its outcome

locals ==
  <<data, storyText, cleanedText, summary, scenes, panels, i, replicateUrl, panelPaths,
    embedded, pdfDoc>>
settle == <<race, thrown, caught, threwAt>>
io == <<started, fetchStatus>>
disk == <<files, pdfWrites, cleanup>>
gs == <<gsIn, gsOut>>
beside == <<wdIn, wdOut, world, hist, alone, cwd, resp>>
vars == <<jobStore, writes, pc, timer, locals, settle, io, retry, disk, gs, route, beside>>

NoPath == "<undefined>"
UploadPath == "tmp/uploads/story.pdf"

JobDatas ==
  [inputType : {"text", "pdf"},
   storyText : {NoText, MkText(0, FALSE), MkText(3, FALSE), MkText(MAX_WORDS, TRUE),
                MkText(MAX_WORDS + 1, FALSE)},
   filePath : {NoPath, UploadPath},
   panelCount : 1..MaxPanels, panelsPerPage : {2}, visualStyle : {"manga"}]

NoData ==
  [inputType |-> "text", storyText |-> NoText, filePath |-> NoPath, panelCount |-> 1,
   panelsPerPage |-> 2, visualStyle |-> "manga"]

NoJobs == [id \in {} |-> createJob("comic", NoData)]

NoFiles == [upload |-> FALSE, raw |-> {}, final |-> {}, meta |-> {}, pdf |-> FALSE]

NoScriptRun == [ran |-> FALSE, ok |-> FALSE, scenes |-> <<>>, error |-> NoError]

NoPosition == "<none>"

\* No withRetry invocation and no fetch has been issued yet.
NoCalls ==
  [analyze |-> 0, script |-> 0,
   image |-> [k \in 0..(MaxPanels - 1) |-> 0],
   fetch |-> [k \in 0..(MaxPanels - 1) |-> 0]]

NoResponse == 0

\* The document under construction: its pages, pageIndex and the outer loop
\* variable i of buildComicPdf.
NoDoc == [pages |-> <<>>, pageIndex |-> 0, i |-> 0]

\* No request has been answered yet.
NoReply ==
  [endpoint |-> "<none>", id |-> "<none>", panel |-> 0, status |-> 0, error |-> "<none>",
   body |-> [job |-> "<none>", what |-> "<none>", n |-> 0]]

InitBeside ==
  /\ cwd = <<>>
  /\ resp = NoReply
  /\ wdIn = [text |-> <<>>, maxCharsPerLine |-> 22]
  /\ wdOut = [ran |-> FALSE, lines |-> <<>>]
  /\ world = [store |-> NoJobs, dirs |-> {}, files |-> <<>>, proc |-> <<>>, log |-> <<>>]
  /\ hist = <<>>
  /\ alone = <<>>

InitLocals ==
  /\ data = NoData
  /\ storyText = NoText
  /\ cleanedText = NoText
  /\ summary = ""
  /\ scenes = <<>>
  /\ panels = <<>>
  /\ i = 0
  /\ replicateUrl = NotAString
  /\ panelPaths = <<>>
  /\ embedded = 0
  /\ pdfDoc = NoDoc

InitRun ==
  /\ writes = <<>>
  /\ pc = "idle"
  /\ timer = "unset"
  /\ race = "unstarted"
  /\ thrown = NoError
  /\ caught = NoError
  /\ threwAt = NoPosition
  /\ started = NoCalls
  /\ fetchStatus = NoResponse
  /\ InitLocals
  /\ retry = IdleRetry
  /\ pdfWrites = 0
  /\ cleanup = "unscheduled"
  /\ route = "unattached"
  /\ InitBeside

Init ==
  /\ jobStore \in {NoJobs}
                    \cup {[id \in {jobId} |-> createJob("translate", NoData)]}
                    \cup {[id \in {jobId} |-> createJob("comic", d)] : d \in JobDatas}
  /\ files = [NoFiles EXCEPT !.upload =
                (jobId \in DOMAIN jobStore /\ jobStore[jobId].data.filePath # NoPath)]
  /\ InitRun
  /\ gsIn = [content |-> EmptyContent, panelCount |-> 1]
  /\ gsOut = NoScriptRun

JobExists == jobId \in DOMAIN jobStore
Job == jobStore[jobId]

\* ------------------------------------------------- writes and error handling
\* updateJob(jobId, updates), recorded in the history when the job exists.
Write(updates) ==
  /\ jobStore' = updateJob(jobStore, jobId, updates)
  /\ writes' = IF JobExists THEN Append(writes, updates) ELSE writes

\* Variant: the catch block reports a fixed text instead of the error's message.
CatchMessage_Unknown(error) == "Unknown error"

\* error instanceof Error ? error.message : 'Unknown error'
CatchMessage(error) == IF error.isError THEN error.message ELSE "Unknown error"

\* Variant: the catch block forgets progress: 100.
CatchUpdates_NoProgress(error) ==
  [status |-> "failed", stage |-> "failed",
   result |-> [error |-> IF error.isError THEN error.message ELSE "Unknown error"]]

\* The update written by the catch block of processComicJob.
CatchUpdates(error) ==
  [status |-> "failed", progress |-> 100, stage |-> "failed",
   result |-> [error |-> CatchMessage(error)]]

\* processComicJobInternal rejects with `error`.  If the race has not settled
\* yet it rejects, and the catch block of processComicJob runs in the same
\* turn of the event loop; otherwise the rejection is dropped.
Throw(error) ==
  /\ pc' = "threw"
  /\ thrown' = error
  /\ threwAt' = pc
  /\ IF race = "pending"
     THEN /\ race' = "rejected"
          /\ caught' = error
          /\ Write(CatchUpdates(error))
     ELSE UNCHANGED <<race, caught, jobStore, writes>>

\* The run goes on to `next` without touching the job record.
Goto(next) ==
  /\ pc' = next
  /\ UNCHANGED <<settle, jobStore, writes>>

\* The run performs updateJob(jobId, updates) and goes on to `next`.
WriteGoto(updates, next) ==
  /\ pc' = next
  /\ Write(updates)
  /\ UNCHANGED settle

Suspended ==
  \/ pc \in {"mkdirPanels", "mkdirOutput", "readFile", "extract", "fetch", "resize",
             "writeRaw", "overlay", "writeFinal", "sidecar", "pdfCreate", "pdfList",
             "pdfEmbed", "pdfSave", "pdfWrite"}
  \/ pc \in {"analyze", "script", "image"} /\ retry.phase \in {"calling", "waiting"}
  \/ pc \in {"done", "threw"}

\* ----------------------------------------------------------- processComicJob
\* Variant: the first write does not mark the job as processing.
InitialUpdates_NoStatus == [progress |-> 5, stage |-> "initializing"]

InitialUpdates == [status |-> "processing", progress |-> 5, stage |-> "initializing"]

\* processComicJob(job.id).catch(...) in the route: arm the timeout, start the
\* race, run processComicJobInternal up to its first statement's write, and
\* attach the route's rejection handler to the returned promise.
ProcessComicJob ==
  /\ pc = "idle"
  /\ timer' = "armed"
  /\ race' = "pending"
  /\ pc' = "getJob"
  /\ Write(InitialUpdates)
  /\ route' = "attached"
  /\ UNCHANGED <<thrown, caught, threwAt, locals, retry, disk, gs, beside>>
  /\ UNCHANGED io

\* const job = getJob(jobId); if (!job || job.type !== 'comic') throw ...
CheckJob ==
  /\ pc = "getJob"
  /\ IF ~JobExists \/ getJob(jobStore, jobId).type # "comic"
     THEN Throw(MkError("Invalid job")) /\ UNCHANGED data
     ELSE Goto("mkdirPanels") /\ data' = getJob(jobStore, jobId).data
  /\ UNCHANGED <<timer, storyText, cleanedText, summary, scenes, panels, i, replicateUrl,
                 panelPaths, embedded, pdfDoc, retry, disk, gs, route, beside>>
  /\ UNCHANGED io

\* await fs.promises.mkdir(panelsDir, { recursive: true })
MkdirPanelsDone ==
  /\ pc = "mkdirPanels"
  /\ \E ok \in BOOLEAN :
       IF ok THEN Goto("mkdirOutput") ELSE Throw(FsError("mkdir panels"))
  /\ UNCHANGED <<timer, locals, retry, disk, gs, route, beside>>
  /\ UNCHANGED io

\* await fs.promises.mkdir(outputDir, ...); updateJob(10, 'extracting-text')
MkdirOutputDone ==
  /\ pc = "mkdirOutput"
  /\ \E ok \in BOOLEAN :
       IF ok THEN WriteGoto([progress |-> 10, stage |-> "extracting-text"], "getStoryText")
       ELSE Throw(FsError("mkdir outputs"))
  /\ UNCHANGED <<timer, locals, retry, disk, gs, route, beside>>
  /\ UNCHANGED io

\* The job data the route stores carry a filePath only for an uploaded PDF,
\* with inputType 'pdf'.
UploadIsPdf(d) == d.filePath # NoPath => d.inputType = "pdf"

\* Variant: an uploaded file is preferred to the caller's text.
GetStoryText_FileFirst ==
  /\ pc = "getStoryText"
  /\ IF data.inputType = "pdf" /\ data.filePath # NoPath
     THEN Goto("readFile") /\ UNCHANGED storyText
     ELSE IF data.storyText.defined /\ data.storyText.words > 0
          THEN Goto("wordGuard") /\ storyText' = data.storyText
          ELSE Throw(MkError("Missing story text")) /\ UNCHANGED storyText
  /\ UNCHANGED <<timer, data, cleanedText, summary, scenes, panels, i, replicateUrl,
                 panelPaths, embedded, pdfDoc, retry, disk, gs, route, beside>>
  /\ UNCHANGED io

\* getStoryText up to its first await.
GetStoryText ==
  /\ pc = "getStoryText"
  /\ IF (data.storyText.defined /\ data.storyText.words > 0)
     THEN Goto("wordGuard") /\ storyText' = data.storyText
     ELSE /\ UNCHANGED storyText
          /\ IF data.inputType = "pdf"
             THEN IF data.filePath = NoPath
                  THEN Throw(MkError("Missing PDF file"))
                  ELSE Goto("readFile")
             ELSE Throw(MkError("Missing story text"))
  /\ UNCHANGED <<timer, data, cleanedText, summary, scenes, panels, i, replicateUrl,
                 panelPaths, embedded, pdfDoc, retry, disk, gs, route, beside>>
  /\ UNCHANGED io

\* const buffer = await fs.promises.readFile(data.filePath)
ReadFileDone ==
  /\ pc = "readFile"
  /\ IF files.upload
     THEN \E ok \in BOOLEAN :
            IF ok THEN Goto("extract") ELSE Throw(FsError("read upload"))
     ELSE Throw(MkError("ENOENT: no such file or directory"))
  /\ UNCHANGED <<timer, locals, retry, disk, gs, route, beside>>
  /\ UNCHANGED io

\* return extractTextFromPdf(buffer)
ExtractDone ==
  /\ pc = "extract"
  /\ \/ \E t \in {MkText(0, FALSE), MkText(3, FALSE), MkText(MAX_WORDS + 1, FALSE)} :
          Goto("wordGuard") /\ storyText' = t
     \/ Throw(MkError("PDF extraction failed")) /\ UNCHANGED storyText
  /\ UNCHANGED <<timer, data, cleanedText, summary, scenes, panels, i, replicateUrl,
                 panelPaths, embedded, pdfDoc, retry, disk, gs, route, beside>>
  /\ UNCHANGED io

\* Variant: the guard compares with >= instead of >.
WordGuard_AtLeast ==
  /\ pc = "wordGuard"
  /\ IF ((cleanText(storyText)).words) >= MAX_WORDS
     THEN Throw(TooLongError) /\ UNCHANGED cleanedText
     ELSE Goto("writeBack") /\ cleanedText' = cleanText(storyText)
  /\ UNCHANGED <<timer, data, storyText, summary, scenes, panels, i, replicateUrl,
                 panelPaths, embedded, pdfDoc, retry, disk, gs, route, beside>>
  /\ UNCHANGED io

\* cleanText, countWords and the MAX_WORDS guard.
WordGuard ==
  /\ pc = "wordGuard"
  /\ IF ((cleanText(storyText)).words) > MAX_WORDS
     THEN Throw(TooLongError) /\ UNCHANGED cleanedText
     ELSE Goto("writeBack") /\ cleanedText' = cleanText(storyText)
  /\ UNCHANGED <<timer, data, storyText, summary, scenes, panels, i, replicateUrl,
                 panelPaths, embedded, pdfDoc, retry, disk, gs, route, beside>>
  /\ UNCHANGED io

\* Variant: the text is written back as it was resolved, not cleaned.
WriteBack_Raw ==
  /\ pc = "writeBack"
  /\ WriteGoto([data |-> [data EXCEPT !.storyText = storyText]], "stageAnalyze")
  /\ UNCHANGED <<timer, locals, retry, disk, gs, route, beside>>
  /\ UNCHANGED io

\* updateJob(jobId, { data: { ...data, storyText: cleanedText } })
WriteBack ==
  /\ pc = "writeBack"
  /\ WriteGoto([data |-> [data EXCEPT !.storyText = cleanedText]], "stageAnalyze")
  /\ UNCHANGED <<timer, locals, retry, disk, gs, route, beside>>
  /\ UNCHANGED io

\* ---------------------------------------------------------- withRetry steps
\* Variant: `await fn()` without `return`: the loop goes on after a success.
RetryCallSucceeds_NoReturn ==
  /\ retry.phase = "calling"
  /\ \E v \in FnValues(retry.kind) :
       LET seen == [retry EXCEPT !.okCount = @ + 1,
                                 !.okValue = IF retry.okCount = 0 THEN v ELSE @,
                                 !.okAtCall = IF retry.okCount = 0 THEN retry.calls ELSE @]
       IN  retry' =
             IF LoopContinues(retry.attempt + 1, retry.retries)
             THEN [seen EXCEPT !.attempt = @ + 1, !.calls = @ + 1]
             ELSE [seen EXCEPT !.phase = "threw", !.attempt = @ + 1,
                               !.error = FinalError(retry.lastError)]
  /\ UNCHANGED <<jobStore, writes, pc, timer, locals, settle, disk, gs, route, beside>>
  /\ UNCHANGED io

\* `return await fn()` settles with a value: withRetry returns it.
RetryCallSucceeds ==
  /\ retry.phase = "calling"
  /\ \E v \in FnValues(retry.kind) :
       retry' = [retry EXCEPT !.phase = "returned", !.value = v,
                              !.okCount = @ + 1,
                              !.okValue = IF retry.okCount = 0 THEN v ELSE @,
                              !.okAtCall = IF retry.okCount = 0 THEN retry.calls ELSE @]
  /\ UNCHANGED <<jobStore, writes, pc, timer, locals, settle, disk, gs, route, beside>>
  /\ UNCHANGED io

\* Variant: `lastError ??= err`: only the first rejection is remembered.
RetryCallFails_KeepsFirst ==
  /\ retry.phase = "calling"
  /\ \E e \in ThrownValues :
       LET kept == IF retry.attempt = 0 THEN e ELSE retry.lastError
       IN  retry' =
             IF (retry.attempt >= retry.retries)
             THEN [retry EXCEPT !.phase = "threw", !.lastError = kept, !.lastThrown = e,
                                !.error = FinalError(kept)]
             ELSE [retry EXCEPT !.phase = "waiting", !.lastError = kept, !.lastThrown = e,
                                !.waits = Append(@, BackoffDelay(retry.baseDelayMs,
                                                                 retry.attempt))]
  /\ UNCHANGED <<jobStore, writes, pc, timer, locals, settle, disk, gs, route, beside>>
  /\ UNCHANGED io

\* fn() rejects: remember the error, then give up or start the backoff wait.
\* lastThrown records what this fn() call rejected with, whatever the catch keeps.
RetryCallFails ==
  /\ retry.phase = "calling"
  /\ \E e \in ThrownValues :
       retry' =
         IF (retry.attempt >= retry.retries)
         THEN [retry EXCEPT !.phase = "threw", !.lastError = e, !.lastThrown = e,
                            !.error = FinalError(e)]
         ELSE [retry EXCEPT !.phase = "waiting", !.lastError = e, !.lastThrown = e,
                            !.waits = Append(@, BackoffDelay(retry.baseDelayMs,
                                                             retry.attempt))]
  /\ UNCHANGED <<jobStore, writes, pc, timer, locals, settle, disk, gs, route, beside>>
  /\ UNCHANGED io

\* The backoff timer elapses: attempt++, loop test, next fn().
RetryDelayElapsed ==
  /\ retry.phase = "waiting"
  /\ retry' =
       IF LoopContinues(retry.attempt + 1, retry.retries)
       THEN [retry EXCEPT !.phase = "calling", !.attempt = @ + 1, !.calls = @ + 1]
       ELSE [retry EXCEPT !.phase = "threw", !.attempt = @ + 1,
                          !.error = FinalError(retry.lastError)]
  /\ UNCHANGED <<jobStore, writes, pc, timer, locals, settle, disk, gs, route, beside>>
  /\ UNCHANGED io

RetrySettled == retry.phase \in {"returned", "threw"}

\* -------------------------------------------------- analysis and script stages
\* Variant: the analysis write omits the stage name.
AnalyzingUpdates_NoStage == [progress |-> 20]

AnalyzingUpdates == [progress |-> 20, stage |-> "analyzing-story"]

\* updateJob(20, 'analyzing-story'); analyzeStory(...) up to the model call.
StageAnalyze ==
  /\ pc = "stageAnalyze"
  /\ WriteGoto(AnalyzingUpdates, "analyze")
  /\ retry' = StartRetry("analyze", 2, 800)
  /\ started' = [started EXCEPT !.analyze = @ + 1]
  /\ UNCHANGED <<timer, locals, fetchStatus, disk, gs, route, beside>>

\* analyzeStory after withRetry settled.
AnalyzeDone ==
  /\ pc = "analyze"
  /\ RetrySettled
  /\ IF retry.phase = "threw"
     THEN Throw(retry.error) /\ UNCHANGED summary
     ELSE IF retry.value = ""
          THEN /\ Throw(MkError("OpenAI returned empty summary for story analysis"))
               /\ UNCHANGED summary
          ELSE Goto("stageScript") /\ summary' = retry.value
  /\ retry' = IdleRetry
  /\ UNCHANGED <<timer, data, storyText, cleanedText, scenes, panels, i, replicateUrl,
                 panelPaths, embedded, pdfDoc, disk, gs, route, beside>>
  /\ UNCHANGED io

\* Variant: the generating-script write carries no result.
ScriptUpdates_NoResult(sum) == [progress |-> 30, stage |-> "generating-script"]

ScriptUpdates(sum) ==
  [progress |-> 30, stage |-> "generating-script",
   result |-> [summary |-> sum, panels |-> <<>>]]

\* updateJob(30, 'generating-script', result); generateScript up to the call.
StageScript ==
  /\ pc = "stageScript"
  /\ WriteGoto(ScriptUpdates(summary), "script")
  /\ retry' = StartRetry("script", 2, 1000)
  /\ started' = [started EXCEPT !.script = @ + 1]
  /\ UNCHANGED <<timer, locals, fetchStatus, disk, gs, route, beside>>

\* Variant: a rejected script content makes the pipeline ask the model again.
ScriptDone_Reprompt ==
  /\ pc = "script"
  /\ RetrySettled
  /\ IF retry.phase = "threw"
     THEN Throw(retry.error) /\ retry' = IdleRetry /\ UNCHANGED <<scenes, io>>
     ELSE LET out == generateScript(retry.value, data.panelCount)
          IN  IF out.ok
              THEN Goto("stageDraw") /\ scenes' = out.scenes /\ retry' = IdleRetry
                   /\ UNCHANGED io
              ELSE /\ Goto("script")
                   /\ retry' = StartRetry("script", 2, 1000)
                   /\ started' = [started EXCEPT !.script = @ + 1]
                   /\ UNCHANGED <<scenes, fetchStatus>>
  /\ UNCHANGED <<timer, data, storyText, cleanedText, summary, panels, i, replicateUrl,
                 panelPaths, embedded, pdfDoc, disk, gs, route, beside>>

\* generateScript after withRetry settled.
ScriptDone ==
  /\ pc = "script"
  /\ RetrySettled
  /\ IF retry.phase = "threw"
     THEN Throw(retry.error) /\ UNCHANGED scenes
     ELSE LET out == generateScript(retry.value, data.panelCount)
          IN  IF out.ok
              THEN Goto("stageDraw") /\ scenes' = out.scenes
              ELSE Throw(out.error) /\ UNCHANGED scenes
  /\ retry' = IdleRetry
  /\ UNCHANGED <<timer, data, storyText, cleanedText, summary, panels, i, replicateUrl,
                 panelPaths, embedded, pdfDoc, disk, gs, route, beside>>
  /\ UNCHANGED io

\* ------------------------------------------------------------- panel drawing

\* updateJob(40, 'drawing-panels'); const panels = []; i = 0
StageDraw ==
  /\ pc = "stageDraw"
  /\ WriteGoto([progress |-> 40, stage |-> "drawing-panels"], "loop")
  /\ panels' = <<>>
  /\ i' = 0
  /\ UNCHANGED <<timer, data, storyText, cleanedText, summary, scenes, replicateUrl,
                 panelPaths, embedded, pdfDoc, retry, disk, gs, route, beside>>
  /\ UNCHANGED io

\* Variant: the progress is computed from i instead of i + 1.
panelProgress_ZeroBased(idx, n) == 40 + ((40 * idx) \div n)

\* 40 + Math.floor(((i + 1) / scenes.length) * 40)
panelProgress(idx, n) == 40 + ((40 * (idx + 1)) \div n)

panelStage(idx, n) == "drawing-panels (" \o ToString(idx + 1) \o "/" \o ToString(n) \o ")"

\* Variant: the per-panel write names the stage but carries no progress.
PanelUpdates_NoProgress(idx, n) == [stage |-> panelStage(idx, n)]

PanelUpdates(idx, n) == [progress |-> panelProgress(idx, n), stage |-> panelStage(idx, n)]

\* Loop test; for a further panel the progress write and generatePanelImage
\* up to the image-model call.
LoopHead ==
  /\ pc = "loop"
  /\ IF i < Len(scenes)
     THEN /\ WriteGoto(PanelUpdates(i, Len(scenes)), "image")
          /\ retry' = StartRetry("image", ImageRetries, 1200)
          /\ started' = [started EXCEPT !.image[i] = @ + 1]
     ELSE Goto("stagePdf") /\ UNCHANGED <<retry, started>>
  /\ UNCHANGED <<timer, locals, fetchStatus, disk, gs, route, beside>>

\* Variant: a failed image call removes the panel files written so far.
ImageDone_RemovesPanels ==
  /\ pc = "image"
  /\ RetrySettled
  /\ IF retry.phase = "threw"
     THEN /\ Throw(retry.error)
          /\ files' = [files EXCEPT !.raw = {}, !.final = {}, !.meta = {}]
          /\ UNCHANGED <<replicateUrl, io>>
     ELSE /\ UNCHANGED files
          /\ LET url == normalizeReplicateOutputUrl(retry.value)
             IN  IF ~IsString(url) \/ url = ""
                 THEN Throw(MkError("Replicate returned no image URL"))
                      /\ UNCHANGED <<replicateUrl, io>>
                 ELSE /\ Goto("fetch")
                      /\ replicateUrl' = url
                      /\ started' = [started EXCEPT !.fetch[i] = @ + 1]
                      /\ fetchStatus' = NoResponse
  /\ retry' = IdleRetry
  /\ UNCHANGED <<timer, data, storyText, cleanedText, summary, scenes, panels, i,
                 panelPaths, embedded, pdfDoc, pdfWrites, cleanup, gs, route, beside>>

\* generatePanelImage after withRetry settled: normalise the URL, start fetch.
ImageDone ==
  /\ pc = "image"
  /\ RetrySettled
  /\ IF retry.phase = "threw"
     THEN Throw(retry.error) /\ UNCHANGED <<replicateUrl, io>>
     ELSE LET url == normalizeReplicateOutputUrl(retry.value)
          IN  IF ~IsString(url) \/ url = ""
              THEN Throw(MkError("Replicate returned no image URL"))
                      /\ UNCHANGED <<replicateUrl, io>>
              ELSE /\ Goto("fetch")
                   /\ replicateUrl' = url
                   /\ started' = [started EXCEPT !.fetch[i] = @ + 1]
                   /\ fetchStatus' = NoResponse
  /\ retry' = IdleRetry
  /\ UNCHANGED <<timer, data, storyText, cleanedText, summary, scenes, panels, i,
                 panelPaths, embedded, pdfDoc, disk, gs, route, beside>>

\* downloadToBuffer: const res = await fetch(url); if (!res.ok) throw ...;
\* arrayBuffer.  fetch itself rejects on a network error.
FetchDone ==
  /\ pc = "fetch"
  /\ \/ \E status \in {200, 404, 500} :
          /\ fetchStatus' = status
          /\ IF status >= 200 /\ status <= 299
             THEN Goto("resize")
             ELSE Throw(FetchStatusError(status))
     \/ Throw(MkError("fetch failed")) /\ UNCHANGED fetchStatus
  /\ UNCHANGED <<timer, locals, started, retry, disk, gs, route, beside>>

\* sharp(imageBuffer).resize(1280, 720, { fit: 'cover' }).png().toBuffer()
ResizeDone ==
  /\ pc = "resize"
  /\ \E ok \in BOOLEAN :
       IF ok THEN Goto("writeRaw")
       ELSE Throw(MkError("Input buffer contains unsupported image format"))
  /\ UNCHANGED <<timer, locals, retry, disk, gs, route, beside>>
  /\ UNCHANGED io

\* await fs.promises.writeFile(rawImagePath, resized)
WriteRawDone ==
  /\ pc = "writeRaw"
  /\ \E ok \in BOOLEAN :
       IF ok
       THEN Goto("overlay") /\ files' = [files EXCEPT !.raw = @ \cup {i}]
       ELSE Throw(FsError("write raw panel")) /\ UNCHANGED files
  /\ UNCHANGED <<timer, locals, retry, pdfWrites, cleanup, gs, route, beside>>
  /\ UNCHANGED io

\* overlaySpeechBubble(resized, dialogueTelugu)
OverlayDone ==
  /\ pc = "overlay"
  /\ \E ok \in BOOLEAN :
       IF ok THEN Goto("writeFinal") ELSE Throw(MkError("composite failed"))
  /\ UNCHANGED <<timer, locals, retry, disk, gs, route, beside>>
  /\ UNCHANGED io

\* Variant: the final image write is not awaited and its file never appears.
WriteFinalDone_NoFile ==
  /\ pc = "writeFinal"
  /\ \E ok \in BOOLEAN :
       IF ok
       THEN Goto("recordPanel") /\ UNCHANGED files
       ELSE Throw(FsError("write final panel")) /\ UNCHANGED files
  /\ UNCHANGED <<timer, locals, retry, pdfWrites, cleanup, gs, route, beside>>
  /\ UNCHANGED io

\* await fs.promises.writeFile(finalImagePath, withBubble); return
WriteFinalDone ==
  /\ pc = "writeFinal"
  /\ \E ok \in BOOLEAN :
       IF ok
       THEN Goto("recordPanel") /\ files' = [files EXCEPT !.final = @ \cup {i}]
       ELSE Throw(FsError("write final panel")) /\ UNCHANGED files
  /\ UNCHANGED <<timer, locals, retry, pdfWrites, cleanup, gs, route, beside>>
  /\ UNCHANGED io

buildImagePrompt(sceneVisual, style) ==
  LET stylePrompt ==
        CASE style = "manga" -> "Japanese manga style"
          [] style = "indian-comic" -> "Indian comic book art style"
          [] style = "cinematic" -> "cinematic storyboard frame"
          [] style = "watercolor" -> "watercolor illustration"
          [] style = "noir" -> "noir comic style"
  IN
  stylePrompt \o ". Single comic panel. 16:9 wide shot. " \o sceneVisual
    \o ". No text, no captions, no watermarks."

\* Variant: panels are numbered from 1.
PanelResult_OneBased(idx, scene, style, url) ==
  [index |-> idx + 1, sceneTitle |-> scene.title, sceneDescription |-> scene.visual,
   dialogueTelugu |-> scene.dialogue_telugu,
   imagePrompt |-> buildImagePrompt(scene.visual, style),
   replicateImageUrl |-> url,
   previewUrl |-> "/api/comic/" \o jobId \o "/panels/" \o ToString(idx)]

PanelResult(idx, scene, style, url) ==
  [index |-> idx, sceneTitle |-> scene.title, sceneDescription |-> scene.visual,
   dialogueTelugu |-> scene.dialogue_telugu,
   imagePrompt |-> buildImagePrompt(scene.visual, style),
   replicateImageUrl |-> url,
   previewUrl |-> "/api/comic/" \o jobId \o "/panels/" \o ToString(idx)]

\* Variant: the written list holds only the newest panel.
PushPanel_Reset(list, panelResult) == <<panelResult>>

\* panels.push(panelResult)
PushPanel(list, panelResult) == Append(list, panelResult)

PanelListUpdates(sum, list) == [result |-> [summary |-> sum, panels |-> list]]

\* Variant: the panel is pushed to the local list but the record is not updated.
RecordPanel_NoUpdate ==
  /\ pc = "recordPanel"
  /\ panels' = PushPanel(panels, PanelResult(i, scenes[i + 1], data.visualStyle, replicateUrl))
  /\ Goto("sidecar")
  /\ UNCHANGED <<timer, data, storyText, cleanedText, summary, scenes, i, replicateUrl,
                 panelPaths, embedded, pdfDoc, retry, disk, gs, route, beside>>
  /\ UNCHANGED io

\* panels.push(panelResult); updateJob(jobId, { result: { summary, panels } });
\* then the sidecar write starts.
RecordPanel ==
  /\ pc = "recordPanel"
  /\ panels' = PushPanel(panels, PanelResult(i, scenes[i + 1], data.visualStyle, replicateUrl))
  /\ WriteGoto(PanelListUpdates(summary, panels'), "sidecar")
  /\ UNCHANGED <<timer, data, storyText, cleanedText, summary, scenes, i, replicateUrl,
                 panelPaths, embedded, pdfDoc, retry, disk, gs, route, beside>>
  /\ UNCHANGED io

\* await fs.promises.writeFile(panel-NNN.meta.json); i++
SidecarDone ==
  /\ pc = "sidecar"
  /\ \E ok \in BOOLEAN :
       IF ok
       THEN /\ Goto("loop")
            /\ files' = [files EXCEPT !.meta = @ \cup {i}]
            /\ i' = i + 1
       ELSE Throw(FsError("write sidecar")) /\ UNCHANGED <<files, i>>
  /\ UNCHANGED <<timer, data, storyText, cleanedText, summary, scenes, panels, replicateUrl,
                 panelPaths, embedded, pdfDoc, retry, pdfWrites, cleanup, gs, route, beside>>
  /\ UNCHANGED io

\* ------------------------------------------------------------- buildComicPdf

\* updateJob(85, 'building-pdf'); buildComicPdf up to PDFDocument.create().
StagePdf ==
  /\ pc = "stagePdf"
  /\ WriteGoto([progress |-> 85, stage |-> "building-pdf"], "pdfCreate")
  /\ UNCHANGED <<timer, locals, retry, disk, gs, route, beside>>
  /\ UNCHANGED io

\* Page geometry of buildComicPdf in hundredths of a point (A4 portrait).
PageWidth == 59528
PageHeight == 84189
Margin == 3600
Gutter == 1400

\* (pageWidth - margin * 2 - gutter) / columns
CellWidth == (PageWidth - Margin * 2 - Gutter) \div 2

\* (pageHeight - margin * 2 - gutter * (rows - 1) - 30) / rows
CellHeight(panelsPerPage) ==
  (PageHeight - Margin * 2 - Gutter * ((panelsPerPage \div 2) - 1) - 3000)
    \div (panelsPerPage \div 2)

\* PDFDocument.create() and embedFont
PdfCreateDone ==
  /\ pc = "pdfCreate"
  /\ \E ok \in BOOLEAN :
       IF ok THEN Goto("pdfList") /\ pdfDoc' = NoDoc
       ELSE Throw(MkError("pdf-lib failed")) /\ UNCHANGED pdfDoc
  /\ UNCHANGED <<timer, data, storyText, cleanedText, summary, scenes, panels, i,
                 replicateUrl, panelPaths, embedded, retry, disk, gs, route, beside>>
  /\ UNCHANGED io

RECURSIVE Digits(_)
\* String(index): the decimal digits of a non-negative integer
Digits(k) == IF k < 10 THEN <<k>> ELSE Digits(k \div 10) \o <<k % 10>>

\* `panel-${String(opts.index).padStart(3, '0')}`
baseName(index) ==
  LET str == Digits(index)
  IN  IF Len(str) >= 3 THEN str ELSE [p \in 1..(3 - Len(str)) |-> 0] \o str

finalImagePath(index) == [base |-> baseName(index), ext |-> ".png"]

\* fs.promises.readdir(panelsDir)
readdir(f) ==
  {[base |-> baseName(k), ext |-> ".raw.png"] : k \in f.raw}
    \cup {finalImagePath(k) : k \in f.final}
    \cup {[base |-> baseName(k), ext |-> ".meta.json"] : k \in f.meta}

\* Code-unit order of two file names of panelsDir, as Array.prototype.sort()
\* without a comparator orders them.
\* Code-unit order of two names.  Of the digit strings the first differing
\* digit decides, and a name whose digits end first has '.' there, which
\* sorts before every digit.
NameLess(a, b) ==
  LET ExtRank(ext) ==
        CASE ext = ".meta.json" -> 0 [] ext = ".png" -> 1 [] ext = ".raw.png" -> 2
      DigitsLess(x, y) ==
        \/ \E p \in 1..Len(x) :
             /\ p <= Len(y)
             /\ \A q \in 1..(p - 1) : x[q] = y[q]
             /\ x[p] < y[p]
        \/ Len(x) < Len(y) /\ \A q \in 1..Len(x) : x[q] = y[q]
  IN  IF a.base = b.base THEN ExtRank(a.ext) < ExtRank(b.ext)
      ELSE DigitsLess(a.base, b.base)

RECURSIVE SortedSeq(_)
\* entries.sort(): ascending in the order of the names
SortedSeq(S) ==
  IF S = {} THEN <<>>
  ELSE LET m == CHOOSE x \in S : \A y \in S \ {x} : NameLess(x, y)
       IN  <<m>> \o SortedSeq(S \ {m})

\* Variant: the raw pre-bubble images are not filtered out.
listPanelPngs_WithRaw(f) == SortedSeq({e \in readdir(f) : e.ext \in {".png", ".raw.png"}})

\* readdir, keep '.png' that are not '.raw.png', sort
listPanelPngs(f) ==
  SortedSeq({e \in readdir(f) : e.ext \in {".png", ".raw.png"} /\ e.ext # ".raw.png"})

\* pageIndex++; pdfDoc.addPage(...)
AddPage(doc) ==
  [doc EXCEPT !.pageIndex = @ + 1, !.pages = Append(@, [cells |-> <<>>, number |-> ""])]

\* Variant: the row is counted from the bottom of the page.
Cell_BottomUp(path, j, panelsPerPage) ==
  [path |-> path, col |-> j % 2, row |-> j \div 2,
   x |-> Margin + (j % 2) * (CellWidth + Gutter),
   y |-> Margin + 3000 + (j \div 2) * (CellHeight(panelsPerPage) + Gutter)]

\* col = j % columns; row = floor(j / columns); x, yTop and y of the cell
Cell(path, j, panelsPerPage) ==
  [path |-> path, col |-> j % 2, row |-> j \div 2,
   x |-> Margin + (j % 2) * (CellWidth + Gutter),
   y |-> PageHeight - Margin - (j \div 2) * (CellHeight(panelsPerPage) + Gutter)
           - CellHeight(panelsPerPage)]

\* const panelPaths = panelFiles.slice(0, opts.panelCount); the page loop up
\* to the readFile of the first panel.
PdfListDone ==
  /\ pc = "pdfList"
  /\ \E ok \in BOOLEAN :
       IF ok
       THEN /\ panelPaths' = SliceTo(listPanelPngs(files), Len(panels))
            /\ embedded' = 0
            /\ IF panelPaths' = <<>>
               THEN Goto("pdfSave") /\ UNCHANGED pdfDoc
               ELSE Goto("pdfEmbed") /\ pdfDoc' = AddPage(pdfDoc)
       ELSE Throw(FsError("readdir panels")) /\ UNCHANGED <<panelPaths, embedded, pdfDoc>>
  /\ UNCHANGED <<timer, data, storyText, cleanedText, summary, scenes, panels, i,
                 replicateUrl, retry, disk, gs, route, beside>>
  /\ UNCHANGED io

\* readFile(batch[j]) and embedPng settled: draw the panel in its cell, then
\* go on to the next panel of the batch, or number the page and start the
\* next batch on a new page, or leave the page loop.
PdfEmbedDone ==
  /\ pc = "pdfEmbed"
  /\ \E ok \in BOOLEAN :
       IF ok /\ panelPaths[embedded + 1] \in readdir(files)
       THEN LET j == embedded - pdfDoc.i
                rest == Len(panelPaths) - pdfDoc.i
                batchLength == IF rest < data.panelsPerPage THEN rest
                               ELSE data.panelsPerPage
                drawn == [pdfDoc EXCEPT
                            !.pages[Len(pdfDoc.pages)].cells =
                              Append(@, Cell(panelPaths[embedded + 1], j, data.panelsPerPage))]
                numbered == [drawn EXCEPT
                               !.pages[Len(drawn.pages)].number = ToString(drawn.pageIndex)]
                nextI == pdfDoc.i + data.panelsPerPage
            IN  /\ embedded' = embedded + 1
                /\ IF j + 1 < batchLength
                   THEN Goto("pdfEmbed") /\ pdfDoc' = drawn
                   ELSE IF nextI < Len(panelPaths)
                        THEN /\ Goto("pdfEmbed")
                             /\ pdfDoc' = AddPage([numbered EXCEPT !.i = nextI])
                        ELSE /\ Goto("pdfSave")
                             /\ pdfDoc' = [numbered EXCEPT !.i = nextI]
       ELSE Throw(FsError("read panel image")) /\ UNCHANGED <<embedded, pdfDoc>>
  /\ UNCHANGED <<timer, data, storyText, cleanedText, summary, scenes, panels, i,
                 replicateUrl, panelPaths, retry, disk, gs, route, beside>>
  /\ UNCHANGED io

\* const pdfBytes = await pdfDoc.save()
PdfSaveDone ==
  /\ pc = "pdfSave"
  /\ \E ok \in BOOLEAN :
       IF ok THEN Goto("pdfWrite") ELSE Throw(MkError("pdf save failed"))
  /\ UNCHANGED <<timer, locals, retry, disk, gs, route, beside>>
  /\ UNCHANGED io

\* await fs.promises.writeFile(pdfPath, pdfBytes); return pdfPath
PdfWriteDone ==
  /\ pc = "pdfWrite"
  /\ \E ok \in BOOLEAN :
       IF ok
       THEN /\ Goto("complete")
            /\ files' = [files EXCEPT !.pdf = TRUE]
            /\ pdfWrites' = pdfWrites + 1
       ELSE Throw(FsError("write pdf")) /\ UNCHANGED <<files, pdfWrites>>
  /\ UNCHANGED <<timer, locals, retry, cleanup, gs, route, beside>>
  /\ UNCHANGED io

CompletedUpdates(sum, list) ==
  [status |-> "completed", progress |-> 100, stage |-> "completed",
   result |-> [previewUrl |-> "/api/comic/" \o jobId \o "/preview",
               downloadUrl |-> "/api/comic/" \o jobId \o "/download",
               summary |-> sum, panels |-> list]]

\* updateJob(jobId, { status: 'completed', ... })
Complete ==
  /\ pc = "complete"
  /\ WriteGoto(CompletedUpdates(summary, panels), "scheduleCleanup")
  /\ UNCHANGED <<timer, locals, retry, disk, gs, route, beside>>
  /\ UNCHANGED io

\* scheduleCleanup(...); processComicJobInternal resolves.
ScheduleCleanup ==
  /\ pc = "scheduleCleanup"
  /\ pc' = "done"
  /\ cleanup' = "scheduled"
  /\ race' = IF race = "pending" THEN "resolved" ELSE race
  /\ UNCHANGED <<jobStore, writes, timer, thrown, caught, threwAt, locals, retry, files,
                 pdfWrites, gs, route, beside>>
  /\ UNCHANGED io

\* ------------------------------------------------------------------- timers
\* Variant: the timer callback does nothing that settles the race.
TimeoutFires_NoReject ==
  /\ timer = "armed"
  /\ Suspended
  /\ timer' = "fired"
  /\ UNCHANGED <<race, caught, jobStore, writes>>
  /\ UNCHANGED <<pc, thrown, threwAt, locals, retry, disk, gs, route, beside>>
  /\ UNCHANGED io

\* setTimeout(() => reject(new Error('Comic job timeout')), COMIC_TIMEOUT).
\* The timer is never cleared.  If the race is still pending it rejects and
\* the catch block of processComicJob runs; processComicJobInternal is not
\* cancelled and keeps its position.
TimeoutFires ==
  /\ timer = "armed"
  /\ Suspended
  /\ timer' = "fired"
  /\ IF race = "pending"
     THEN /\ race' = "rejected"
          /\ caught' = TimeoutError
          /\ Write(CatchUpdates(TimeoutError))
     ELSE UNCHANGED <<race, caught, jobStore, writes>>
  /\ UNCHANGED <<pc, thrown, threwAt, locals, retry, disk, gs, route, beside>>
  /\ UNCHANGED io

\* The promise returned by processComicJob, from the state of its race: the
\* await of the race sits in a try block whose catch block writes the failed
\* record and returns, so the async function returns normally whether the
\* race resolved or rejected.
processComicJobPromise(r) ==
  IF r \in {"resolved", "rejected"} THEN "fulfilled" ELSE "pending"

\* The reaction of `.catch(async (error) => ...)` in the route once the
\* promise of processComicJob has settled.  A fulfilled promise passes the
\* handler by; a rejected one runs it: the failed update, then, for a job
\* with a filePath, unlink of the upload, whose failure is only logged.  It
\* runs between two synchronous segments of the pipeline.
RouteSettled ==
  /\ route = "attached"
  /\ Suspended
  /\ processComicJobPromise(race) # "pending"
  /\ IF processComicJobPromise(race) = "rejected"
     THEN /\ route' = "handled"
          /\ Write([status |-> "failed", stage |-> "failed", progress |-> 100,
                    result |-> [error |-> CatchMessage(caught)]])
          /\ IF JobExists /\ Job.data.filePath # NoPath
             THEN \E ok \in BOOLEAN :
                    files' = IF ok THEN [files EXCEPT !.upload = FALSE] ELSE files
             ELSE UNCHANGED files
     ELSE /\ route' = "passed"
          /\ UNCHANGED <<jobStore, writes, files>>
  /\ UNCHANGED <<pc, timer, locals, settle, retry, pdfWrites, cleanup, gs, beside>>
  /\ UNCHANGED io

\* Variant: the cleanup callback leaves the generated PDF in place.
AfterCleanup_KeepsPdf(f, done) ==
  [upload |-> IF done >= 1 THEN FALSE ELSE f.upload,
   pdf |-> f.pdf,
   raw |-> IF done >= 3 THEN {} ELSE f.raw,
   final |-> IF done >= 3 THEN {} ELSE f.final,
   meta |-> IF done >= 3 THEN {} ELSE f.meta]

\* Files left after the first `done` steps of the cleanup callback:
\* unlink(uploadFilePath), unlink(pdfPath), rm(comicDir, recursive).
AfterCleanup(f, done) ==
  [upload |-> IF done >= 1 THEN FALSE ELSE f.upload,
   pdf |-> IF done >= 2 THEN FALSE ELSE f.pdf,
   raw |-> IF done >= 3 THEN {} ELSE f.raw,
   final |-> IF done >= 3 THEN {} ELSE f.final,
   meta |-> IF done >= 3 THEN {} ELSE f.meta]

\* The scheduleCleanup callback runs, CLEANUP_TIMEOUT after completion (and so
\* after the COMIC_TIMEOUT timer).  A failing step aborts the remaining ones
\* and the catch block logs 'Cleanup failed'; otherwise 'Cleaned up' is logged.
CleanupFires ==
  /\ cleanup = "scheduled"
  /\ Suspended
  /\ COMIC_TIMEOUT < CLEANUP_TIMEOUT => timer = "fired"
  /\ \E done \in 0..3 :
       /\ files' = AfterCleanup(files, done)
       /\ cleanup' = IF done = 3 THEN "ran" ELSE "failed"
  /\ UNCHANGED <<jobStore, writes, pc, timer, locals, settle, retry, pdfWrites, gs, route, beside>>
  /\ UNCHANGED io

\* ------------------------------------------------------------ specifications
Next ==
  \/ ProcessComicJob
  \/ CheckJob
  \/ MkdirPanelsDone
  \/ MkdirOutputDone
  \/ GetStoryText
  \/ ReadFileDone
  \/ ExtractDone
  \/ WordGuard
  \/ WriteBack
  \/ StageAnalyze
  \/ AnalyzeDone
  \/ StageScript
  \/ ScriptDone
  \/ StageDraw
  \/ LoopHead
  \/ ImageDone
  \/ FetchDone
  \/ ResizeDone
  \/ WriteRawDone
  \/ OverlayDone
  \/ WriteFinalDone
  \/ RecordPanel
  \/ SidecarDone
  \/ StagePdf
  \/ PdfCreateDone
  \/ PdfListDone
  \/ PdfEmbedDone
  \/ PdfSaveDone
  \/ PdfWriteDone
  \/ Complete
  \/ ScheduleCleanup
  \/ RetryCallSucceeds
  \/ RetryCallFails
  \/ RetryDelayElapsed
  \/ TimeoutFires
  \/ RouteSettled
  \/ CleanupFires

\* One run of processComicJob on one job of the store.
Spec == Init /\ [][Next]_vars

\* The steps processComicJobInternal takes by itself once it is scheduled:
\* its synchronous segments, the continuations after a settled withRetry, and
\* the end of a backoff wait.  The completion of an external call or of a
\* file operation is not among them: it may never come.
PipelineStep ==
  \/ CheckJob
  \/ GetStoryText
  \/ WordGuard
  \/ WriteBack
  \/ StageAnalyze
  \/ AnalyzeDone
  \/ StageScript
  \/ ScriptDone
  \/ StageDraw
  \/ LoopHead
  \/ ImageDone
  \/ RecordPanel
  \/ StagePdf
  \/ Complete
  \/ ScheduleCleanup
  \/ RetryDelayElapsed

\* One run of processComicJob under an event loop that runs what is ready:
\* a ready pipeline step is eventually taken, and the COMIC_TIMEOUT timer,
\* once armed, eventually fires unless the loop is never idle again.
SpecLive == Init /\ [][Next]_vars /\ WF_vars(PipelineStep) /\ WF_vars(TimeoutFires)

\* ---- generateScript on its own: every content, every requested panel count
InitScript ==
  /\ jobStore = NoJobs
  /\ files = NoFiles
  /\ InitRun
  /\ gsIn \in [content : ScriptContents, panelCount : 0..MaxScenes]
  /\ gsOut = NoScriptRun

RunGenerateScript ==
  /\ ~gsOut.ran
  /\ LET out == generateScript(gsIn.content, gsIn.panelCount)
     IN  gsOut' = [ran |-> TRUE, ok |-> out.ok, scenes |-> out.scenes, error |-> out.error]
  /\ UNCHANGED <<jobStore, writes, pc, timer, locals, settle, retry, disk, gsIn, route, beside>>
  /\ UNCHANGED io

SpecScript == InitScript /\ [][RunGenerateScript]_vars

InitRetry ==
  /\ jobStore = NoJobs
  /\ files = NoFiles
  /\ InitRun
  /\ gsIn = [content |-> EmptyContent, panelCount |-> 1]
  /\ gsOut = NoScriptRun

WithRetryCall ==
  /\ retry.phase = "idle"
  /\ \E r \in 0..MaxRetries, d \in {800, 1000, 1200} :
       retry' = StartRetry("test", r, d)
  /\ UNCHANGED <<jobStore, writes, pc, timer, locals, settle, disk, gs, route, beside>>
  /\ UNCHANGED io

NextRetry ==
  \/ WithRetryCall
  \/ RetryCallSucceeds
  \/ RetryCallFails
  \/ RetryDelayElapsed

SpecRetry == InitRetry /\ [][NextRetry]_vars

\* ---------------------------------------------------- buildComicPdf alone

\* buildComicPdf called on a panels directory that holds the raw image, the
\* final image and the sidecar of panelCount panels, as the panel loop leaves
\* it, for every panelCount up to MaxPdfPanels and every panelsPerPage.
InitPdf ==
  /\ jobStore = NoJobs
  /\ writes = <<>>
  /\ pc = "pdfCreate"
  /\ timer = "unset"
  /\ race = "unstarted"
  /\ thrown = NoError
  /\ caught = NoError
  /\ threwAt = NoPosition
  /\ started = NoCalls
  /\ fetchStatus = NoResponse
  /\ data \in {[NoData EXCEPT !.panelCount = n, !.panelsPerPage = p] :
                 n \in 1..MaxPdfPanels, p \in {2, 4, 6}}
  /\ storyText = NoText
  /\ cleanedText = NoText
  /\ summary = ""
  /\ scenes = <<>>
  /\ panels = [k \in 1..data.panelCount |->
                 PanelResult(k - 1, [title |-> "t1", visual |-> "v1", dialogue_telugu |-> "d1"],
                             data.visualStyle, ImageUrl)]
  /\ i = data.panelCount
  /\ replicateUrl = ImageUrl
  /\ panelPaths = <<>>
  /\ embedded = 0
  /\ pdfDoc = NoDoc
  /\ retry = IdleRetry
  /\ files = [NoFiles EXCEPT !.raw = 0..(data.panelCount - 1),
                             !.final = 0..(data.panelCount - 1),
                             !.meta = 0..(data.panelCount - 1)]
  /\ pdfWrites = 0
  /\ cleanup = "unscheduled"
  /\ route = "unattached"
  /\ InitBeside
  /\ gsIn = [content |-> EmptyContent, panelCount |-> 1]
  /\ gsOut = NoScriptRun

NextPdf ==
  \/ PdfCreateDone
  \/ PdfListDone
  \/ PdfEmbedDone
  \/ PdfSaveDone
  \/ PdfWriteDone

SpecPdf == InitPdf /\ [][NextPdf]_vars

\* ----------------------------------------------------- wrapDialogue alone

\* /\s/
IsSpace(c) == c = " "

RECURSIVE TrimStart(_)
TrimStart(t) ==
  IF t # <<>> /\ IsSpace(Head(t)) THEN TrimStart(Tail(t)) ELSE t

RECURSIVE TrimEnd(_)
TrimEnd(t) ==
  IF t # <<>> /\ IsSpace(t[Len(t)]) THEN TrimEnd(SubSeq(t, 1, Len(t) - 1)) ELSE t

RECURSIVE Split(_)
\* String.prototype.split(/\s+/): the pieces between the runs of white space,
\* empty pieces at the ends included.
Split(t) ==
  IF \A p \in 1..Len(t) : ~IsSpace(t[p]) THEN <<t>>
  ELSE LET p == CHOOSE x \in 1..Len(t) :
                  IsSpace(t[x]) /\ \A y \in 1..(x - 1) : ~IsSpace(t[y])
       IN  <<SubSeq(t, 1, p - 1)>> \o Split(TrimStart(SubSeq(t, p, Len(t))))

RECURSIVE WrapLoop_HardBreak(_, _, _, _)
\* Variant: a word longer than the budget is cut to the budget.
WrapLoop_HardBreak(words, current, lines, maxCharsPerLine) ==
  IF words = <<>>
  THEN IF current # <<>> THEN Append(lines, current) ELSE lines
  ELSE LET word == SliceTo(Head(words), maxCharsPerLine)
           next == IF current # <<>> THEN (current \o <<" ">> \o word) ELSE word
       IN  IF Len(next) <= maxCharsPerLine
           THEN WrapLoop_HardBreak(Tail(words), next, lines, maxCharsPerLine)
           ELSE WrapLoop_HardBreak(Tail(words), word,
                                   IF current # <<>> THEN Append(lines, current) ELSE lines,
                                   maxCharsPerLine)

RECURSIVE WrapLoop(_, _, _, _)
\* for (const word of words) { ... }; if (current) lines.push(current)
WrapLoop(words, current, lines, maxCharsPerLine) ==
  IF words = <<>>
  THEN IF current # <<>> THEN Append(lines, current) ELSE lines
  ELSE LET word == Head(words)
           next == IF current # <<>> THEN (current \o <<" ">> \o word) ELSE word
       IN  IF Len(next) <= maxCharsPerLine
           THEN WrapLoop(Tail(words), next, lines, maxCharsPerLine)
           ELSE WrapLoop(Tail(words), word,
                         IF current # <<>> THEN Append(lines, current) ELSE lines,
                         maxCharsPerLine)

\* Variant: all lines are returned.
wrapDialogue_NoSlice(text, maxCharsPerLine) ==
  LET words == SelectSeq(Split(TrimEnd(TrimStart(text))), LAMBDA w : w # <<>>)
  IN  IF words = <<>> THEN <<<<>>>>
      ELSE WrapLoop(words, <<>>, <<>>, maxCharsPerLine)

wrapDialogue(text, maxCharsPerLine) ==
  LET words == SelectSeq(Split(TrimEnd(TrimStart(text))), LAMBDA w : w # <<>>)
  IN  IF words = <<>> THEN <<<<>>>>
      ELSE SliceTo(WrapLoop(words, <<>>, <<>>, maxCharsPerLine), 4)

\* wrapDialogue called on every text of up to MaxTextLen characters with
\* every budget up to MaxBudget.
InitWrap ==
  /\ jobStore = NoJobs
  /\ files = NoFiles
  /\ writes = <<>>
  /\ pc = "idle"
  /\ timer = "unset"
  /\ race = "unstarted"
  /\ thrown = NoError
  /\ caught = NoError
  /\ threwAt = NoPosition
  /\ started = NoCalls
  /\ fetchStatus = NoResponse
  /\ InitLocals
  /\ retry = IdleRetry
  /\ pdfWrites = 0
  /\ cleanup = "unscheduled"
  /\ route = "unattached"
  /\ gsIn = [content |-> EmptyContent, panelCount |-> 1]
  /\ gsOut = NoScriptRun
  /\ wdIn \in [text : SeqsUpTo({"a", "b", " "}, MaxTextLen), maxCharsPerLine : 0..MaxBudget]
  /\ cwd = <<>>
  /\ resp = NoReply
  /\ wdOut = [ran |-> FALSE, lines |-> <<>>]
  /\ world = [store |-> NoJobs, dirs |-> {}, files |-> <<>>, proc |-> <<>>, log |-> <<>>]
  /\ hist = <<>>
  /\ alone = <<>>

RunWrapDialogue ==
  /\ ~wdOut.ran
  /\ wdOut' = [ran |-> TRUE, lines |-> wrapDialogue(wdIn.text, wdIn.maxCharsPerLine)]
  /\ UNCHANGED <<jobStore, writes, pc, timer, locals, settle, retry, disk, gs, route, wdIn,
                 world, hist, alone, cwd, resp>>
  /\ UNCHANGED io

SpecWrap == InitWrap /\ [][RunWrapDialogue]_vars

\* --------------------------------------------------- several jobs at once
\* The ids of the jobs in the store.
JobIds == {"jobA", "jobB"}

\* Variant: the working directory does not depend on the job.
comicDir_NoJobId(id) == <<"tmp", "comic">>

\* path.join(os.tmpdir(), 'comic', jobId)
comicDir(id) == <<"tmp", "comic", id>>

\* path.join(comicDir, 'panels')
panelsDir(id) == comicDir(id) \o <<"panels">>

\* path.join(os.tmpdir(), 'outputs')
outputDir == <<"tmp", "outputs">>

\* path.join(opts.outputDir, `${opts.jobId}-comic.pdf`)
pdfPath(id) == [dir |-> outputDir, file |-> [base |-> <<>>, ext |-> id \o "-comic.pdf"]]

\* path.join(panelsDir, name)
PanelFile(id, name) == [dir |-> panelsDir(id), file |-> name]

\* fs.promises.mkdir(dir, { recursive: true })
Mkdir(w, dir) == [w EXCEPT !.dirs = @ \cup {SubSeq(dir, 1, n) : n \in 1..Len(dir)}]

\* fs.promises.writeFile(path, content) into an existing directory
WriteFile(w, path, content) ==
  [w EXCEPT !.files = [p \in DOMAIN w.files \cup {path} |->
                         IF p = path THEN content ELSE w.files[p]]]

\* fs.promises.rm(dir, { recursive: true, force: true })
RmTree(w, root) ==
  LET Within(dir) == Len(root) <= Len(dir) /\ SubSeq(dir, 1, Len(root)) = root
  IN  [w EXCEPT !.dirs = {d \in @ : ~Within(d)},
                !.files = [p \in {q \in DOMAIN w.files : ~Within(q.dir)} |-> w.files[p]]]

\* Two comic jobs created from pasted text, panelCount[id] panels each.
InitialWorld(panelCount) ==
  [store |-> [id \in JobIds |->
                createJob("comic", [NoData EXCEPT !.storyText = (MkText(3, FALSE)),
                                                  !.panelCount = panelCount[id]])],
   dirs |-> {<<"tmp">>},
   files |-> <<>>,
   proc |-> [id \in JobIds |->
               [pc |-> "idle", timer |-> "unset", race |-> "unstarted",
                cleanup |-> "unscheduled", data |-> NoData, i |-> 0, panels |-> <<>>,
                panelPaths |-> <<>>, embedded |-> 0]],
   log |-> [id \in JobIds |-> <<>>]]

\* updateJob(jobId, updates) by the pipeline of job id
Update(w, id, updates) ==
  [w EXCEPT !.store = updateJob(@, id, updates), !.log[id] = Append(@, updates)]

\* The pipeline of job id goes on to position next.
At(w, id, next) == [w EXCEPT !.proc[id].pc = next]

\* The pipeline of job id throws: the catch block of processComicJob writes
\* the failed record unless the race is already settled.
ThrowIn(w, id, error) ==
  IF w.proc[id].race = "pending"
  THEN Update([w EXCEPT !.proc[id].pc = "threw", !.proc[id].race = "rejected"],
              id, CatchUpdates(error))
  ELSE [w EXCEPT !.proc[id].pc = "threw"]

\* The head of the panel loop of job id with loop variable idx: the stage
\* write of the next panel, or the building-pdf write after the last one.
LoopHeadOf(w, id, idx) ==
  LET n == w.proc[id].data.panelCount
  IN  IF idx < n
      THEN At(Update([w EXCEPT !.proc[id].i = idx], id, PanelUpdates(idx, n)), id, "image")
      ELSE At(Update([w EXCEPT !.proc[id].i = idx], id,
                     [progress |-> 85, stage |-> "building-pdf"]),
              id, "pdfList")

\* The event can happen to job id in world w.
CanTake(w, id, ev) ==
  LET p == w.proc[id]
  IN  CASE ev = "ok" -> p.pc \notin {"done", "threw"}
        [] ev = "fail" -> p.pc \notin {"idle", "done", "threw"}
        [] ev = "timeout" -> p.timer = "armed"
        [] OTHER -> p.cleanup = "scheduled" /\ p.timer = "fired"

\* The world after job id has taken event ev: processComicJob and
\* processComicJobInternal from one await to the next, the timeout, the
\* cleanup callback.
JobStep(w, id, ev) ==
  LET p == w.proc[id]
      dir == panelsDir(id)
  IN  CASE ev = "timeout" ->
             IF p.race = "pending"
             THEN Update([w EXCEPT !.proc[id].timer = "fired",
                                   !.proc[id].race = "rejected"],
                         id, CatchUpdates(TimeoutError))
             ELSE [w EXCEPT !.proc[id].timer = "fired"]
        [] ev = "cleanupFail" -> [w EXCEPT !.proc[id].cleanup = "failed"]
        [] ev = "cleanup" ->
             LET unlinked == [w EXCEPT !.files = [f \in DOMAIN w.files \ {pdfPath(id)} |->
                                                    w.files[f]]]
             IN  [RmTree(unlinked, comicDir(id)) EXCEPT !.proc[id].cleanup = "ran"]
        [] p.pc = "idle" ->
             Update([w EXCEPT !.proc[id].timer = "armed",
                              !.proc[id].race = "pending",
                              !.proc[id].data = getJob(w.store, id).data,
                              !.proc[id].pc = "mkdirPanels"],
                    id, InitialUpdates)
        [] p.pc = "mkdirPanels" ->
             IF ev = "ok" THEN At(Mkdir(w, dir), id, "mkdirOutput")
             ELSE ThrowIn(w, id, FsError("mkdir panels"))
        [] p.pc = "mkdirOutput" ->
             IF ev = "ok"
             THEN LET made == Mkdir(w, outputDir)
                      w10 == Update(made, id, [progress |-> 10, stage |-> "extracting-text"])
                      wData == Update(w10, id,
                                 [data |-> [p.data EXCEPT
                                              !.storyText = cleanText(p.data.storyText)]])
                  IN  At(Update(wData, id, AnalyzingUpdates), id, "analyze")
             ELSE ThrowIn(w, id, FsError("mkdir outputs"))
        [] p.pc = "analyze" ->
             IF ev = "ok" THEN At(Update(w, id, ScriptUpdates("summary")), id, "script")
             ELSE ThrowIn(w, id, MkError("upstream error A"))
        [] p.pc = "script" ->
             IF ev = "ok"
             THEN LoopHeadOf(Update(w, id, [progress |-> 40, stage |-> "drawing-panels"]), id, 0)
             ELSE ThrowIn(w, id, MkError("upstream error A"))
        [] p.pc = "image" ->
             IF ev = "ok" THEN At(w, id, "writeRaw")
             ELSE ThrowIn(w, id, MkError("upstream error A"))
        [] p.pc = "writeRaw" ->
             IF ev = "ok" /\ dir \in w.dirs
             THEN At(WriteFile(w, PanelFile(id, [base |-> baseName(p.i), ext |-> ".raw.png"]),
                               [job |-> id, what |-> "raw", n |-> p.i]),
                     id, "writeFinal")
             ELSE ThrowIn(w, id, FsError("write raw image"))
        [] p.pc = "writeFinal" ->
             IF ev = "ok" /\ dir \in w.dirs
             THEN LET written == WriteFile(w, PanelFile(id, finalImagePath(p.i)),
                                           [job |-> id, what |-> "final", n |-> p.i])
                      list == PushPanel(p.panels,
                                [PanelResult(p.i, [title |-> "t1", visual |-> "v1",
                                                   dialogue_telugu |-> "d1"],
                                             p.data.visualStyle, ImageUrl)
                                   EXCEPT !.previewUrl = "/api/comic/" \o id \o "/panels/"
                                                           \o ToString(p.i)])
                  IN  At(Update([written EXCEPT !.proc[id].panels = list], id,
                                PanelListUpdates("summary", list)),
                         id, "sidecar")
             ELSE ThrowIn(w, id, FsError("write final image"))
        [] p.pc = "sidecar" ->
             IF ev = "ok" /\ dir \in w.dirs
             THEN LoopHeadOf(WriteFile(w, PanelFile(id, [base |-> baseName(p.i),
                                                         ext |-> ".meta.json"]),
                                       [job |-> id, what |-> "meta", n |-> p.i]),
                             id, p.i + 1)
             ELSE ThrowIn(w, id, FsError("write sidecar"))
        [] p.pc = "pdfList" ->
             IF ev = "ok" /\ dir \in w.dirs
             THEN LET listed == {f \in DOMAIN w.files :
                                   /\ f.dir = dir
                                   /\ f.file.ext \in {".png", ".raw.png"}
                                   /\ f.file.ext # ".raw.png"}
                      paths == SliceTo(SortedSeq({f.file : f \in listed}), Len(p.panels))
                  IN  At([w EXCEPT !.proc[id].panelPaths = paths,
                                   !.proc[id].embedded = 0],
                         id, IF paths = <<>> THEN "pdfWrite" ELSE "pdfEmbed")
             ELSE ThrowIn(w, id, FsError("readdir panels"))
        [] p.pc = "pdfEmbed" ->
             IF ev = "ok" /\ PanelFile(id, p.panelPaths[p.embedded + 1]) \in DOMAIN w.files
             THEN At([w EXCEPT !.proc[id].embedded = p.embedded + 1], id,
                     IF p.embedded + 1 = Len(p.panelPaths) THEN "pdfWrite" ELSE "pdfEmbed")
             ELSE ThrowIn(w, id, FsError("read panel image"))
        [] p.pc = "pdfWrite" ->
             IF ev = "ok" /\ outputDir \in w.dirs
             THEN LET written == WriteFile(w, pdfPath(id),
                                           [job |-> id, what |-> "pdf", n |-> p.embedded])
                      completed == Update(written, id,
                                          [CompletedUpdates("summary", p.panels) EXCEPT
                                             !.result.previewUrl =
                                               "/api/comic/" \o id \o "/preview",
                                             !.result.downloadUrl =
                                               "/api/comic/" \o id \o "/download"])
                  IN  [completed EXCEPT
                         !.proc[id].pc = "done",
                         !.proc[id].cleanup = "scheduled",
                         !.proc[id].race = IF p.race = "pending" THEN "resolved" ELSE p.race]
             ELSE ThrowIn(w, id, FsError("write pdf"))
        [] OTHER -> w

\* Two jobs in the store, each with its own panel count, no pipeline started.
InitJobs ==
  /\ jobStore = NoJobs
  /\ files = NoFiles
  /\ writes = <<>>
  /\ pc = "idle"
  /\ timer = "unset"
  /\ race = "unstarted"
  /\ thrown = NoError
  /\ caught = NoError
  /\ threwAt = NoPosition
  /\ started = NoCalls
  /\ fetchStatus = NoResponse
  /\ InitLocals
  /\ retry = IdleRetry
  /\ pdfWrites = 0
  /\ cleanup = "unscheduled"
  /\ route = "unattached"
  /\ gsIn = [content |-> EmptyContent, panelCount |-> 1]
  /\ gsOut = NoScriptRun
  /\ wdIn = [text |-> <<>>, maxCharsPerLine |-> 22]
  /\ wdOut = [ran |-> FALSE, lines |-> <<>>]
  /\ world \in {InitialWorld(n) : n \in [JobIds -> 1..MaxJobPanels]}
  /\ cwd = <<>>
  /\ resp = NoReply
  /\ hist = [id \in JobIds |-> <<>>]
  /\ alone = [id \in JobIds |-> world]

\* One job takes one event; the other jobs stand still.  The same event is
\* applied to the world in which that job runs alone.
JobEvent ==
  /\ \E id \in JobIds, ev \in {"ok", "fail", "timeout", "cleanup", "cleanupFail"} :
       /\ CanTake(world, id, ev)
       /\ world' = JobStep(world, id, ev)
       /\ hist' = [hist EXCEPT ![id] = Append(@, ev)]
       /\ alone' = [alone EXCEPT ![id] = JobStep(@, id, ev)]
  /\ UNCHANGED <<jobStore, writes, pc, timer, locals, settle, retry, disk, gs, route, wdIn,
                 wdOut, cwd, resp>>
  /\ UNCHANGED io

SpecJobs == InitJobs /\ [][JobEvent]_vars

\* ------------------------------------------- download, preview, panel endpoints
\* What a GET handler returns: NextResponse.json({ error }, { status }) or
\* the bytes of a file with status 200.
Reply(endpoint, id, panel, status, error, body) ==
  [endpoint |-> endpoint, id |-> id, panel |-> panel, status |-> status, error |-> error,
   body |-> body]

\* GET of download/route.ts and of preview/route.ts, which differ in the
\* response headers and in the text of the 500 response: the job must exist
\* and be completed, the file is looked up at
\* path.join(process.cwd(), 'tmp', 'outputs', `${params.id}-comic.pdf`).
\* `ok` tells whether fs.promises.readFile succeeds.
PdfGet(endpoint, w, dir, id, ok) ==
  LET path == [dir |-> dir \o <<"tmp", "outputs">>,
               file |-> [base |-> <<>>, ext |-> id \o "-comic.pdf"]]
  IN  IF id \notin DOMAIN w.store
      THEN Reply(endpoint, id, 0, 404, "Job not found", NoReply.body)
      ELSE IF getJob(w.store, id).status # "completed"
      THEN Reply(endpoint, id, 0, 400, "Job not completed yet", NoReply.body)
      ELSE IF path \notin DOMAIN w.files
      THEN Reply(endpoint, id, 0, 404, "Generated PDF not found", NoReply.body)
      ELSE IF ~ok
      THEN Reply(endpoint, id, 0, 500,
                 IF endpoint = "download" THEN "Download failed" ELSE "Preview failed",
                 NoReply.body)
      ELSE Reply(endpoint, id, 0, 200, "<none>", w.files[path])

\* GET of panels/[panel]/route.ts for a panel parameter that parses to the
\* integer panelIndex: the job must exist, the index must not be negative,
\* the file is looked up at
\* path.join(os.tmpdir(), 'comic', params.id, 'panels', 'panel-NNN.png').
PanelGet(w, id, panelIndex, ok) ==
  LET path == [dir |-> <<"tmp", "comic", id, "panels">>,
               file |-> [base |-> IF panelIndex < 0 THEN <<>> ELSE baseName(panelIndex),
                         ext |-> ".png"]]
  IN  IF id \notin DOMAIN w.store
      THEN Reply("panel", id, panelIndex, 404, "Job not found", NoReply.body)
      ELSE IF panelIndex < 0
      THEN Reply("panel", id, panelIndex, 400, "Invalid panel index", NoReply.body)
      ELSE IF path \notin DOMAIN w.files
      THEN Reply("panel", id, panelIndex, 404, "Panel not found", NoReply.body)
      ELSE IF ~ok
      THEN Reply("panel", id, panelIndex, 500, "Panel preview failed", NoReply.body)
      ELSE Reply("panel", id, panelIndex, 200, "<none>", w.files[path])

\* The server runs in the root directory or in an application directory; the
\* pipeline of job A has not started, job B is never started.
InitServe ==
  /\ jobStore = NoJobs
  /\ files = NoFiles
  /\ writes = <<>>
  /\ pc = "idle"
  /\ timer = "unset"
  /\ race = "unstarted"
  /\ thrown = NoError
  /\ caught = NoError
  /\ threwAt = NoPosition
  /\ started = NoCalls
  /\ fetchStatus = NoResponse
  /\ InitLocals
  /\ retry = IdleRetry
  /\ pdfWrites = 0
  /\ cleanup = "unscheduled"
  /\ route = "unattached"
  /\ gsIn = [content |-> EmptyContent, panelCount |-> 1]
  /\ gsOut = NoScriptRun
  /\ wdIn = [text |-> <<>>, maxCharsPerLine |-> 22]
  /\ wdOut = [ran |-> FALSE, lines |-> <<>>]
  /\ world \in {InitialWorld(n) : n \in [JobIds -> 1..MaxJobPanels]}
  /\ hist = [id \in JobIds |-> <<>>]
  /\ alone = [id \in JobIds |-> world]
  /\ cwd \in {<<>>, <<"app">>}
  /\ resp = NoReply

\* The pipeline of job A takes one event.
ServeJobEvent ==
  /\ \E ev \in {"ok", "fail", "timeout", "cleanup", "cleanupFail"} :
       /\ CanTake(world, "jobA", ev)
       /\ world' = JobStep(world, "jobA", ev)
  /\ UNCHANGED <<jobStore, writes, pc, timer, locals, settle, retry, disk, gs, route, wdIn,
                 wdOut, hist, alone, cwd, resp>>
  /\ UNCHANGED io

\* GET /api/comic/[id]/download
DownloadGet ==
  /\ \E id \in JobIds \cup {"nojob"}, ok \in BOOLEAN :
       resp' = PdfGet("download", world, cwd, id, ok)
  /\ UNCHANGED <<jobStore, writes, pc, timer, locals, settle, retry, disk, gs, route, wdIn,
                 wdOut, world, hist, alone, cwd>>
  /\ UNCHANGED io

\* GET /api/comic/[id]/preview
PreviewGet ==
  /\ \E id \in JobIds \cup {"nojob"}, ok \in BOOLEAN :
       resp' = PdfGet("preview", world, cwd, id, ok)
  /\ UNCHANGED <<jobStore, writes, pc, timer, locals, settle, retry, disk, gs, route, wdIn,
                 wdOut, world, hist, alone, cwd>>
  /\ UNCHANGED io

\* GET /api/comic/[id]/panels/[panel]
PanelImageGet ==
  /\ \E id \in JobIds \cup {"nojob"}, panelIndex \in (0 - 1)..MaxJobPanels, ok \in BOOLEAN :
       resp' = PanelGet(world, id, panelIndex, ok)
  /\ UNCHANGED <<jobStore, writes, pc, timer, locals, settle, retry, disk, gs, route, wdIn,
                 wdOut, world, hist, alone, cwd>>
  /\ UNCHANGED io

NextServe ==
  \/ ServeJobEvent
  \/ DownloadGet
  \/ PreviewGet
  \/ PanelImageGet

\* One job and the three GET endpoints that serve its files.
SpecServe == InitServe /\ [][NextServe]_vars

\* =================================================================== claims
IsPrefix(a, b) == Len(a) <= Len(b) /\ SubSeq(b, 1, Len(a)) = a

\* result.panels of a job record; a record without a result or without a
\* panel list shows no panels.
PanelsOf(job) ==
  IF "result" \in DOMAIN job /\ "panels" \in DOMAIN job.result
  THEN job.result.panels
  ELSE <<>>

IsFailedWrite(u) == "status" \in DOMAIN u /\ u.status = "failed"

FailedWrites == Cardinality({k \in DOMAIN writes : IsFailedWrite(writes[k])})

\* The run failed because processComicJobInternal rejected while the race was
\* pending, i.e. a stage error reached the catch block of processComicJob.
StageFailed == pc = "threw" /\ thrown # NoError /\ caught = thrown

\* processComicJobInternal is suspended on an external call or file operation.
InFlight == Suspended /\ pc \notin {"done", "threw"}

\* The stage whose work is in flight at position p.
StageOf(p) ==
  CASE p \in {"mkdirPanels", "mkdirOutput"} -> "initializing"
    [] p \in {"readFile", "extract"} -> "extracting-text"
    [] p = "analyze" -> "analyzing-story"
    [] p = "script" -> "generating-script"
    [] p \in {"image", "fetch", "resize", "writeRaw", "overlay", "writeFinal", "sidecar"}
         -> panelStage(i, Len(scenes))
    [] p \in {"pdfCreate", "pdfList", "pdfEmbed", "pdfSave", "pdfWrite"} -> "building-pdf"
    [] OTHER -> "none"

\* ---- C1
\* C1: terminal states are absorbing: once the record's status is completed
\* or failed, no later step changes its status, progress, stage or result.
C1_TerminalAbsorbing ==
  [][(JobExists /\ Job.status \in {"completed", "failed"})
       => /\ Job'.status = Job.status
          /\ Job'.progress = Job.progress
          /\ Job'.stage = Job.stage
          /\ Job'.result = Job.result]_vars

\* ---- C2
\* C2: when the timeout timer fires while the race is still pending, the step
\* leaves the record failed, progress 100, stage 'failed', and result.error
\* equal to the timeout message, whatever the position of the run.
C2_TimeoutWritesFailed ==
  [][(timer = "armed" /\ timer' = "fired" /\ race = "pending")
       => /\ jobId \in DOMAIN jobStore'
          /\ Job'.status = "failed"
          /\ Job'.progress = 100
          /\ Job'.stage = "failed"
          /\ Job'.result.error = "Comic job timeout"]_vars

\* The timeout has just failed a job that had already produced a panel.
C2_Witness ==
  /\ JobExists
  /\ caught = TimeoutError
  /\ Len(panels) >= 1
  /\ Job.status = "failed"
  /\ Job.stage = "failed"
  /\ Job.progress = 100
  /\ Job.result = [error |-> "Comic job timeout"]

\* ---- C3
\* C3: across successive writes to the job record the progress value never
\* decreases.
C3_ProgressNeverDecreases ==
  [][JobExists => Job'.progress >= Job.progress]_vars

\* ---- C4
\* C4 (as claimed): in every pair of successive record states the earlier
\* panel list is a prefix of the later one, also when the job ends failed.
C4_PanelsOnlyGrow ==
  [][JobExists => IsPrefix(PanelsOf(Job), PanelsOf(Job'))]_vars

\* C4 (amended): the panel list only grows, except across the single write
\* that marks the job failed, which replaces the whole result by {error}.
C4_PanelsGrowUntilFailed ==
  [][JobExists
       => \/ IsPrefix(PanelsOf(Job), PanelsOf(Job'))
          \/ /\ Job.status # "failed"
             /\ Job'.status = "failed"
             /\ DOMAIN Job'.result = {"error"}]_vars

\* The record of a job in progress lists two panels.
C4_Witness ==
  /\ JobExists
  /\ Job.status = "processing"
  /\ Len(PanelsOf(Job)) >= 2

\* ---- C5
\* C5: generateScript either fails or returns exactly panelCount scenes.
C5_SceneCountExact ==
  (gsOut.ran /\ gsOut.ok) => Len(gsOut.scenes) = gsIn.panelCount

\* generateScript succeeded on a response holding more valid scenes than asked.
C5_Witness ==
  /\ gsOut.ran
  /\ gsOut.ok
  /\ gsIn.panelCount >= 2
  /\ Len(gsIn.content.scenes) > gsIn.panelCount
  /\ Len(gsOut.scenes) = gsIn.panelCount

C7_CompletedRecord ==
  JobExists
    => /\ Job.status = "completed"
         => /\ Job.progress = 100
            /\ Len(Job.result.panels) = Job.data.panelCount
            /\ \A k \in 1..Len(Job.result.panels) : Job.result.panels[k].index = k - 1
            /\ {"previewUrl", "downloadUrl"} \subseteq DOMAIN Job.result
            /\ pdfWrites >= 1
       /\ ("result" \in DOMAIN Job
             /\ {"previewUrl", "downloadUrl"} \cap DOMAIN Job.result # {})
            => pdfWrites >= 1

\* A run without failure or timeout completed a job of two or more panels.
C7_Witness ==
  /\ JobExists
  /\ Job.status = "completed"
  /\ caught = NoError
  /\ Len(Job.result.panels) >= 2

\* ---- C8
ValidationErrors ==
  {MkError("Missing PDF file"), MkError("Missing story text"), TooLongError,
   MkError("Invalid job")}

\* C8 (as claimed): in a run failing with an input validation error the
\* status is never written as processing.
C8_NeverProcessing ==
  (StageFailed /\ thrown \in ValidationErrors)
    => \A k \in DOMAIN writes :
         "status" \in DOMAIN writes[k] => writes[k].status # "processing"

\* C8 (amended): in such a run the first write sets status processing before
\* any validation; until the failed write the record stays at stage
\* initializing or extracting-text with progress at most 10; a job that is
\* absent is never written at all.
C8_ProcessingOnlyUpToExtracting ==
  (StageFailed /\ thrown \in ValidationErrors)
    => IF JobExists
       THEN /\ Len(writes) >= 2
            /\ "status" \in DOMAIN writes[1]
            /\ writes[1].status = "processing"
            /\ IsFailedWrite(writes[Len(writes)])
            /\ \A k \in 1..(Len(writes) - 1) :
                 /\ "status" \in DOMAIN writes[k] => writes[k].status = "processing"
                 /\ "progress" \in DOMAIN writes[k] => writes[k].progress <= 10
                 /\ "stage" \in DOMAIN writes[k]
                      => writes[k].stage \in {"initializing", "extracting-text"}
       ELSE writes = <<>>

\* The word-count guard failed a run on an existing comic job.
C8_Witness ==
  /\ StageFailed
  /\ thrown = TooLongError
  /\ JobExists
  /\ Job.status = "failed"

\* ---- C9
ClaimedStages ==
  {"extracting-text", "analyzing-story", "generating-script", "building-pdf"}
    \cup {panelStage(idx, n) : idx \in 0..MaxPanels, n \in 1..(MaxPanels + 1)}

\* The stage of the last write made by processComicJobInternal itself.
LastRunStage ==
  LET own == {k \in DOMAIN writes : "stage" \in DOMAIN writes[k] /\ ~IsFailedWrite(writes[k])}
  IN  IF own = {} THEN "none"
      ELSE writes[CHOOSE k \in own : \A m \in own : m <= k].stage

\* C9 (as claimed): whenever work of a stage is in flight, the record's stage
\* is that stage.
C9_StageIsExecuting ==
  (JobExists /\ InFlight /\ StageOf(pc) \in ClaimedStages)
    => Job.stage = StageOf(pc)

\* C9 (amended): the write naming a stage precedes the stage's work, so while
\* that work is in flight the record's stage is the executing one, unless the
\* timeout has fired in the meantime and the record's stage reads 'failed'.
C9_StageWrittenBeforeWork ==
  (JobExists /\ InFlight /\ StageOf(pc) \in ClaimedStages)
    => /\ LastRunStage = StageOf(pc)
       /\ \/ Job.stage = StageOf(pc)
          \/ caught = TimeoutError /\ timer = "fired" /\ Job.stage = "failed"

\* The image call of the second panel is in flight and the record names it.
C9_Witness ==
  /\ JobExists
  /\ pc = "image"
  /\ retry.phase = "calling"
  /\ i >= 1
  /\ timer = "armed"
  /\ Job.stage = panelStage(i, Len(scenes))

\* ---- C10
\* C10: withRetry invokes the operation at least once and at most retries+1
\* times, never again after the first success, and returns that success's value.
C10_RetryInvocations ==
  /\ retry.phase # "idle" => (retry.calls >= 1 /\ retry.calls <= retry.retries + 1)
  /\ retry.okCount <= 1
  /\ retry.okCount >= 1
       => /\ retry.calls = retry.okAtCall
          /\ retry.phase = "returned"
          /\ retry.value = retry.okValue
  /\ retry.phase = "returned" => retry.okCount = 1

\* withRetry returned the value of a success on its last permitted attempt.
C10_Witness ==
  /\ retry.phase = "returned"
  /\ retry.retries = 2
  /\ retry.calls = 3
  /\ retry.value = retry.okValue

\* ---- C11
\* Every permitted attempt of withRetry has failed.
AllAttemptsFailed ==
  /\ retry.phase = "threw"
  /\ retry.okCount = 0
  /\ retry.calls = retry.retries + 1

\* C11 (as stated): when every attempt fails, withRetry raises exactly the value
\* the last attempt threw, whatever kind of value that is.
C11_RaisesLastThrown == AllAttemptsFailed => retry.error = retry.lastThrown

\* C11 (amended): when every attempt fails, withRetry raises the last attempt's
\* error if that is an Error instance (never an earlier attempt's), and a new
\* Error('Operation failed') if the last attempt threw a non-Error value.
C11_RaisesLastErrorOrReplacement ==
  AllAttemptsFailed
    => /\ retry.lastThrown.isError => retry.error = retry.lastThrown
       /\ ~retry.lastThrown.isError => retry.error = MkError("Operation failed")

\* Three attempts failed and the last one threw an Error that is raised.
C11_Witness ==
  /\ AllAttemptsFailed
  /\ retry.retries = 2
  /\ retry.calls = 3
  /\ retry.lastThrown = MkError("upstream error B")
  /\ retry.error = MkError("upstream error B")

\* ---- C12
HasOwnStage(u) == "stage" \in DOMAIN u /\ u.stage # "failed"

\* The stage names written by processComicJobInternal, in the order written.
OwnStageWrites == SelectSeq(writes, HasOwnStage)

\* Position of a stage name in the order of the pipeline.
StageRank(s) ==
  CASE s = "initializing" -> 1
    [] s = "extracting-text" -> 2
    [] s = "analyzing-story" -> 3
    [] s = "generating-script" -> 4
    [] s = "drawing-panels" -> 5
    [] s = "building-pdf" -> 7 + MaxPanels
    [] s = "completed" -> 8 + MaxPanels
    [] OTHER -> 5 + (CHOOSE k \in 1..(MaxPanels + 1) :
                       \E n \in 1..(MaxPanels + 1) : s = panelStage(k - 1, n))

\* C12: every model call runs inside withRetry with 2 retries, so one run makes
\* at most 3 analysis calls, at most 3 script calls and at most 3 image calls
\* per panel, and the run never goes back to an earlier stage.
C12_ModelCallsBounded ==
  /\ pc \in {"analyze", "script", "image"} => (retry.kind = pc /\ retry.phase # "idle")
  /\ retry.kind \in {"analyze", "script", "image"}
       => /\ pc = retry.kind
          /\ retry.retries = 2
          /\ retry.calls <= 3
  /\ started.analyze <= 1
  /\ started.script <= 1
  /\ \A k \in DOMAIN started.image : started.image[k] <= 1
  /\ retry.kind = "analyze" => started.analyze = 1
  /\ retry.kind = "script" => started.script = 1
  /\ retry.kind = "image" => started.image[i] = 1
  /\ \A a, b \in 1..Len(OwnStageWrites) :
       a < b => StageRank(OwnStageWrites[a].stage) < StageRank(OwnStageWrites[b].stage)

\* The third image call of the second panel is in flight.
C12_Witness ==
  /\ pc = "image"
  /\ retry.phase = "calling"
  /\ retry.calls = 3
  /\ i = 1
  /\ started.analyze = 1
  /\ started.script = 1
  /\ started.image[0] = 1
  /\ started.image[1] = 1

\* ---- C13
\* Positions inside generatePanelImage.
PanelPcs == {"image", "fetch", "resize", "writeRaw", "overlay", "writeFinal"}

HasPanelList(u) == "result" \in DOMAIN u /\ "panels" \in DOMAIN u.result

\* Some updateJob call so far wrote a panel list that holds panel k.
RecordedPanel(k) ==
  \E w \in 1..Len(writes) :
    /\ HasPanelList(writes[w])
    /\ \E p \in 1..Len(writes[w].result.panels) : writes[w].result.panels[p].index = k

\* Panels whose image call was started and whose final file is not written.
PanelsInGeneration == {k \in DOMAIN started.image : started.image[k] >= 1 /\ k \notin files.final}

\* C13: panels are generated one after another: while panel i is being
\* generated every earlier panel has its final image file written and has been
\* written to the job record's panel list, and at most one panel is in
\* generation at any time.
C13_PanelsSequential ==
  /\ pc \in PanelPcs
       => /\ \A k \in 0..(i - 1) : k \in files.final /\ RecordedPanel(k)
          /\ PanelsInGeneration = {i}
  /\ cleanup \in {"unscheduled", "scheduled"} => Cardinality(PanelsInGeneration) <= 1

\* The image call of the second panel is in flight after the first panel was
\* written to disk and to the record.
C13_Witness ==
  /\ pc = "image"
  /\ retry.phase = "calling"
  /\ i = 1
  /\ 0 \in files.final
  /\ RecordedPanel(0)
  /\ PanelsInGeneration = {1}

\* ---- C14
\* C14: for each panel the final image file is written first, then the panel
\* is written to the job record's panel list, then its sidecar file is
\* written; so until cleanup every panel listed in the job record has its
\* final image file on disk.
C14_FileThenRecordThenSidecar ==
  /\ \A k \in files.meta : RecordedPanel(k) /\ k \in files.final
  /\ cleanup \in {"unscheduled", "scheduled"}
       => /\ \A k \in 0..(MaxPanels - 1) : RecordedPanel(k) => k \in files.final
          /\ JobExists
               => \A p \in 1..Len(PanelsOf(Job)) : PanelsOf(Job)[p].index \in files.final

\* The first panel is in the record with its final file on disk while its
\* sidecar write is still pending.
C14_Witness ==
  /\ pc = "sidecar"
  /\ JobExists
  /\ Len(PanelsOf(Job)) = 1
  /\ PanelsOf(Job)[1].index = 0
  /\ 0 \in files.final
  /\ 0 \notin files.meta

\* ---- C15
\* The job record's panel list holds panel k.
ListedPanel(k) ==
  /\ JobExists
  /\ \E p \in 1..Len(PanelsOf(Job)) : PanelsOf(Job)[p].index = k

\* The step that writes stage 'building-pdf' and starts buildComicPdf.
EntersBuildingPdf == pc = "stagePdf" /\ pc' = "pdfCreate"

\* C15: the building-pdf stage is entered only in states where every one of
\* the panelCount panels has its final image file on disk and is present in
\* the job record's panel list.
C15_PdfEntryHasAllPanels ==
  [][EntersBuildingPdf
       => \A k \in 0..(data.panelCount - 1) : k \in files.final /\ ListedPanel(k)]_vars

\* ---- C16
\* The timeout has settled the race: the job was written as failed by it.
TimedOut == caught = TimeoutError

\* C16: once the timeout has made the job failed the timed-out work is
\* ignored: no further panel is added to the record, no further stage or
\* progress is written, no PDF is written and no cleanup is scheduled.
C16_TimedOutWorkIgnored ==
  [][TimedOut
       => /\ writes' = writes
          /\ jobStore' = jobStore
          /\ pdfWrites' = pdfWrites
          /\ (cleanup = "unscheduled" => cleanup' = "unscheduled")]_vars

\* ---- C17
\* The run was ended by a non-success response to the image fetch of panel i.
FetchRejected(status) ==
  /\ StageFailed
  /\ threwAt = "fetch"
  /\ fetchStatus = status

\* C17 (as stated): a non-success image fetch (HTTP 500) fails the panel only
\* after 3 attempts, and the job is then failed with an error naming the status.
C17_FetchFailsAfterThreeAttempts ==
  FetchRejected(500)
    => /\ started.fetch[i] = 3
       /\ Job.status = "failed"
       /\ Job.result.error = "Failed to fetch image: 500"

\* C17 (amended): a non-success image fetch fails the panel at once: the
\* fetch follows one successful withRetry of the image call, is issued exactly
\* once and is not retried; the job is then failed with an error that names
\* the HTTP status.
C17_FetchFailsWithoutRetry ==
  \A status \in {404, 500} :
    FetchRejected(status)
      => /\ started.image[i] = 1
         /\ started.fetch[i] = 1
         /\ retry = IdleRetry
         /\ Job.status = "failed"
         /\ Job.stage = "failed"
         /\ Job.result.error = "Failed to fetch image: " \o ToString(status)

\* The fetch of the second panel's image was answered with HTTP 500.
C17_Witness ==
  /\ FetchRejected(500)
  /\ i = 1
  /\ started.fetch[1] = 1
  /\ Job.status = "failed"
  /\ Job.result.error = "Failed to fetch image: 500"

\* ---- C18
\* generatePanelImage of panel i rejected and ended the run.
PanelFailed == pc = "threw" /\ threwAt \in PanelPcs

\* C18: if the generation of panel k fails after its retries, the job ends
\* failed, no panel after k is attempted, no PDF is written and no cleanup is
\* scheduled, and the image files of panels 0..k-1 remain on disk.
C18_PanelFailureStopsRun ==
  PanelFailed
    => /\ JobExists
       /\ Job.status = "failed"
       /\ \A k \in DOMAIN started.image :
            k > i => (started.image[k] = 0 /\ started.fetch[k] = 0)
       /\ pdfWrites = 0
       /\ ~files.pdf
       /\ cleanup = "unscheduled"
       /\ \A k \in 0..(i - 1) : k \in files.raw /\ k \in files.final

\* The image call of the second panel failed on all its attempts; the first
\* panel's files are on disk.
C18_Witness ==
  /\ PanelFailed
  /\ threwAt = "image"
  /\ thrown = MkError("upstream error A")
  /\ i = 1
  /\ 0 \in files.final
  /\ started.image[1] = 1
  /\ Job.status = "failed"

\* ---- C19
\* C19: whenever the job's status is failed, its result.error is present and
\* is a non-empty string.
C19_FailedHasError ==
  (JobExists /\ "status" \in DOMAIN Job /\ Job.status = "failed")
    => /\ "result" \in DOMAIN Job
       /\ "error" \in DOMAIN Job.result
       /\ Job.result.error # ""

\* ---- C20
HasStage(u) == "stage" \in DOMAIN u

\* The (stage, progress) pairs written so far, in the order written.
StageProgressWritten ==
  LET sw == SelectSeq(writes, HasStage)
  IN  [k \in 1..Len(sw) |-> [stage |-> sw[k].stage, progress |-> sw[k].progress]]

\* The panel writes 'drawing-panels (k/n)' for k = 1..n.
PanelSteps(n) ==
  [k \in 1..n |->
     [stage |-> "drawing-panels (" \o ToString(k) \o "/" \o ToString(n) \o ")",
      progress |-> 40 + ((40 * k) \div n)]]

StepsBeforePanels ==
  << [stage |-> "initializing", progress |-> 5],
     [stage |-> "extracting-text", progress |-> 10],
     [stage |-> "analyzing-story", progress |-> 20],
     [stage |-> "generating-script", progress |-> 30] >>

StepsAfterPanels ==
  << [stage |-> "building-pdf", progress |-> 85],
     [stage |-> "completed", progress |-> 100] >>

\* The run has written completed, and neither a failure nor the timeout
\* settled it.
CleanRun ==
  /\ JobExists
  /\ pc \in {"scheduleCleanup", "done"}
  /\ thrown = NoError
  /\ caught = NoError

\* The first write sets status processing, the last one completed, and no
\* write in between sets a status.
StatusProcessingUntilCompleted ==
  /\ writes[1].status = "processing"
  /\ writes[Len(writes)].status = "completed"
  /\ \A w \in 2..(Len(writes) - 1) : "status" \notin DOMAIN writes[w]

\* C20 (as stated): on a run without failure or timeout the (stage, progress)
\* pairs written are exactly initializing(5), extracting-text(10),
\* analyzing-story(20), generating-script(30), drawing-panels (i/N) for
\* i = 1..N, building-pdf(85), completed(100), with status processing until
\* the completed write.
C20_ExactStageSequence ==
  CleanRun
    => /\ StageProgressWritten
            = StepsBeforePanels \o PanelSteps(data.panelCount) \o StepsAfterPanels
       /\ StatusProcessingUntilCompleted

\* C20 (amended): as stated, with one more write, drawing-panels(40), between
\* generating-script(30) and the first drawing-panels (1/N) write; the panel
\* writes carry progress 40 + floor(40 * i / N).
C20_ExactStageSequenceWithDrawing ==
  CleanRun
    => /\ StageProgressWritten
            = StepsBeforePanels \o << [stage |-> "drawing-panels", progress |-> 40] >>
                \o PanelSteps(data.panelCount) \o StepsAfterPanels
       /\ StatusProcessingUntilCompleted

\* A run of two panels completed without failure or timeout.
C20_Witness ==
  /\ CleanRun
  /\ data.panelCount = 2
  /\ Job.status = "completed"
  /\ Len(StageProgressWritten) = 9
  /\ StageProgressWritten[6] = [stage |-> "drawing-panels (1/2)", progress |-> 60]

\* ---- C21
\* The label 'drawing-panels (j/n)'.
DrawingLabel(j, n) == "drawing-panels (" \o ToString(j) \o "/" \o ToString(n) \o ")"

\* The record of a running job shows the drawing-panels stage.
InDrawingStage ==
  /\ JobExists
  /\ "stage" \in DOMAIN Job
  /\ Job.status = "processing"
  /\ \/ Job.stage = "drawing-panels"
     \/ \E j \in 1..Job.data.panelCount : Job.stage = DrawingLabel(j, Job.data.panelCount)

\* C21 (as stated): in the drawing-panels stage with k of N panels in
\* result.panels, progress is 40 + floor(40 * k / N), so 80 is shown only when
\* all N panels are completed.
C21_ProgressLinearInCompleted ==
  InDrawingStage
    => /\ Job.progress = 40 + ((40 * Len(PanelsOf(Job))) \div Job.data.panelCount)
       /\ Job.progress = 80 => Len(PanelsOf(Job)) = Job.data.panelCount

\* C21 (amended): in the drawing-panels stage progress is linear in the panels
\* started: it is 40 before the first panel and 40 + floor(40 * j / N) from
\* the moment panel j of N is started, when j - 1 panels are in result.panels,
\* until panel j + 1 is started; 80 is shown as soon as the last panel is
\* started.
C21_ProgressLinearInStarted ==
  InDrawingStage
    => /\ Job.stage = "drawing-panels"
            => (Job.progress = 40 /\ Len(PanelsOf(Job)) = 0)
       /\ \A j \in 1..Job.data.panelCount :
            Job.stage = DrawingLabel(j, Job.data.panelCount)
              => /\ Job.progress = 40 + ((40 * j) \div Job.data.panelCount)
                 /\ Len(PanelsOf(Job)) \in {j - 1, j}

\* The last of two panels is being generated: progress 80 with one panel
\* in the record.
C21_Witness ==
  /\ InDrawingStage
  /\ pc = "image"
  /\ Job.data.panelCount = 2
  /\ Job.stage = DrawingLabel(2, 2)
  /\ Job.progress = 80
  /\ Len(PanelsOf(Job)) = 1

\* ---- C22
\* C22: the word-count guard of the extracting-text stage rejects the story
\* with the 'too long' error exactly when its cleaned text has more than
\* MAX_WORDS words: MAX_WORDS words pass and MAX_WORDS + 1 words fail.
C22_WordGuardBoundary ==
  [][pc = "wordGuard"
       => IF storyText.words > MAX_WORDS
          THEN /\ pc' = "threw"
               /\ thrown' = MkError("Story too long. Max 10000 words.")
               /\ race = "pending"
                    => /\ Job'.status = "failed"
                       /\ Job'.result.error = "Story too long. Max 10000 words."
          ELSE /\ pc' = "writeBack"
               /\ thrown' = NoError
               /\ cleanedText'.words = storyText.words
               /\ cleanedText'.clean]_vars

\* A story of exactly MAX_WORDS words has passed the guard.
C22_Witness ==
  /\ pc = "writeBack"
  /\ storyText.words = MAX_WORDS
  /\ cleanedText.words = MAX_WORDS
  /\ thrown = NoError

\* ---- C29
NoUrl == "<no url>"

\* The URL the four supported response shapes stand for: a non-empty string,
\* an array whose first element is a string, an object with a string url, an
\* object with an output array whose first element is a string.
SupportedShapeUrl(out) ==
  CASE out.falsy -> NoUrl
    [] ~out.falsy /\ IsString(out.str) -> out.str
    [] ~out.falsy /\ ~IsString(out.str) /\ IsString(out.first) -> out.first
    [] ~out.falsy /\ ~IsString(out.str) /\ ~IsString(out.first) /\ IsString(out.url)
         -> out.url
    [] ~out.falsy /\ ~IsString(out.str) /\ ~IsString(out.first) /\ ~IsString(out.url)
         /\ IsString(out.outputFirst) -> out.outputFirst
    [] OTHER -> NoUrl

\* C29: the image call's response is mapped to its URL for each of the four
\* supported shapes ({output: ["http://x/y.png"]} to "http://x/y.png"); for
\* every other value, and for an empty URL, generatePanelImage fails with
\* 'Replicate returned no image URL' before any fetch is issued.
C29_ResponseShapeToUrl ==
  [][(pc = "image" /\ retry.phase = "returned")
       => LET u == SupportedShapeUrl(retry.value)
          IN  IF u \notin {NoUrl, ""}
              THEN /\ pc' = "fetch"
                   /\ replicateUrl' = u
                   /\ started'.fetch[i] = 1
              ELSE /\ pc' = "threw"
                   /\ thrown' = MkError("Replicate returned no image URL")
                   /\ started'.fetch = started.fetch
                   /\ started.fetch[i] = 0]_vars

\* The fetch of the second panel was started with the URL of the response.
C29_Witness ==
  /\ pc = "fetch"
  /\ i = 1
  /\ replicateUrl = "http://x/y.png"
  /\ started.fetch[1] = 1
  /\ fetchStatus = NoResponse

\* ---- C30
\* Number of scenes of the returned content that have a string visual and a
\* string dialogue_telugu.
ValidSceneCount(content) ==
  Cardinality({k \in 1..Len(content.scenes) :
                 IsString(content.scenes[k].visual)
                   /\ IsString(content.scenes[k].dialogue_telugu)})

\* Scene count after the valid scenes were truncated to the requested count.
ResultingCount(content, n) ==
  IF ValidSceneCount(content) < n THEN ValidSceneCount(content) ELSE n

\* The returned script content is empty, is not parseable JSON, has no scenes
\* list, or yields a scene count different from the requested one.
ContentRejected(content, n) ==
  \/ content.kind \in {"empty", "nobrace", "badjson"}
  \/ ~content.scenesIsArray
  \/ ResultingCount(content, n) # n

\* The error text that names the returned count k and the requested count n.
CountMessage(k, n) ==
  "OpenAI returned " \o ToString(k) \o " scenes instead of requested "
    \o ToString(n) \o " scenes"

\* C30: when the script call returns but its content is rejected, the script
\* call is not issued again, no image call is made and the job becomes
\* failed; for a count mismatch the error names the returned and the
\* requested count.
C30_RejectedScriptFailsJob ==
  /\ [](threwAt = "script"
          => /\ pc = "threw"
             /\ started.script = 1
             /\ \A k \in DOMAIN started.image : started.image[k] = 0 /\ started.fetch[k] = 0
             /\ Job.status = "failed")
  /\ [][(pc = "script" /\ retry.phase = "returned")
          => IF ContentRejected(retry.value, data.panelCount)
             THEN /\ pc' = "threw"
                  /\ started' = started
                  /\ Job'.status = "failed"
                  /\ race = "pending" => Job'.result.error = thrown'.message
                  /\ (retry.value.kind = "object" /\ retry.value.scenesIsArray)
                       => thrown'.message
                            = CountMessage(ValidSceneCount(retry.value), data.panelCount)
             ELSE pc' = "stageDraw" /\ Len(scenes') = data.panelCount]_vars

\* One valid scene was returned where two were requested, and the job failed
\* with the error naming 1 and 2.
C30_Witness ==
  /\ StageFailed
  /\ threwAt = "script"
  /\ data.panelCount = 2
  /\ thrown.message = "OpenAI returned 1 scenes instead of requested 2 scenes"
  /\ Job.status = "failed"
  /\ Job.result.error = "OpenAI returned 1 scenes instead of requested 2 scenes"
  /\ started.script = 1

RECURSIVE CellsOf(_)
\* The drawn cells of a document in drawing order, page after page.
CellsOf(pages) ==
  IF pages = <<>> THEN <<>> ELSE pages[1].cells \o CellsOf(Tail(pages))

\* C24: panel order agrees everywhere. In every state of a job, the k-th
\* name of the sorted listing of final panel images (raw images and sidecars
\* left out) is the final image of panel index k, the k-th entry of the panel
\* list, in the pipeline and in the job record, has index k, the sidecar named
\* for k belongs to the panel of index k, and the k-th image drawn into the PDF
\* is the final image of panel k; a written PDF holds every panel.
C24_PanelOrderAgrees ==
  LET listing == listPanelPngs(files)
      cells == CellsOf(pdfDoc.pages)
  IN  /\ Len(listing) = Cardinality(files.final)
      /\ \A k \in 1..Len(listing) : listing[k] = finalImagePath(k - 1)
      /\ \A k \in 1..Len(panels) : panels[k].index = k - 1
      /\ (jobId \in DOMAIN jobStore /\ HasPanelList(Job))
           => \A k \in 1..Len(Job.result.panels) : Job.result.panels[k].index = k - 1
      /\ \A k \in files.meta :
           /\ ([base |-> baseName(k), ext |-> ".meta.json"]) \in readdir(files)
           /\ k + 1 <= Len(panels)
           /\ panels[k + 1].index = k
           /\ listing[k + 1] = finalImagePath(k)
      /\ \A k \in 1..Len(cells) : cells[k].path = finalImagePath(k - 1)
      /\ files.pdf => Len(cells) = Len(panels)

\* A completed job with two panels: two final images listed, two sidecars,
\* two entries in the record and two images in the written PDF.
C24_Witness ==
  /\ jobId \in DOMAIN jobStore
  /\ Job.status = "completed"
  /\ Len(Job.result.panels) = 2
  /\ Len(listPanelPngs(files)) = 2
  /\ files.raw = {0, 1}
  /\ files.meta = {0, 1}
  /\ files.pdf
  /\ Len(CellsOf(pdfDoc.pages)) = 2
  /\ CellsOf(pdfDoc.pages)[2].path = finalImagePath(1)

\* The page loop of buildComicPdf has ended.
PagesBuilt == pc \in {"pdfSave", "pdfWrite", "complete"}

\* The whole-number quotient of n by d, rounded up.
CeilDiv(n, d) == (n + d - 1) \div d

\* C23: for every panel count N and every panelsPerPage in {2, 4, 6},
\* buildComicPdf draws panel i on page i \div panelsPerPage + 1 as the cell of
\* slot i % panelsPerPage, slot s being column s % 2 and row s \div 2, with
\* column 0 left of column 1 and each row below the one before it, the first
\* at the top margin; when the page loop has ended there are exactly
\* ceil(N / panelsPerPage) pages, each numbered with its 1-based index.
C23_PdfLayout ==
  LET perPage == data.panelsPerPage
      count == Len(panelPaths)
      pages == pdfDoc.pages
      height == CellHeight(perPage)
  IN  /\ \A p \in 1..Len(pages) :
           /\ Len(pages[p].cells) <= perPage
           /\ p < Len(pages) => Len(pages[p].cells) = perPage /\ pages[p].number = ToString(p)
           /\ \A s \in 1..Len(pages[p].cells) :
                LET cell == pages[p].cells[s]
                    index == (p - 1) * perPage + (s - 1)
                IN  /\ cell.path = finalImagePath(index)
                    /\ index \div perPage + 1 = p
                    /\ index % perPage = s - 1
                    /\ cell.col = (s - 1) % 2
                    /\ cell.row = (s - 1) \div 2
                    /\ cell.x >= Margin
                    /\ cell.x + CellWidth <= PageWidth - Margin
                    /\ cell.y >= Margin
                    /\ cell.y + height <= PageHeight - Margin
                    /\ cell.row = 0 => cell.y + height = PageHeight - Margin
                    /\ \A t \in 1..Len(pages[p].cells) :
                         LET other == pages[p].cells[t]
                         IN  /\ cell.col < other.col => cell.x + CellWidth <= other.x
                             /\ cell.col = other.col => cell.x = other.x
                             /\ cell.row < other.row => other.y + height <= cell.y
                             /\ cell.row = other.row => cell.y = other.y
      /\ PagesBuilt
           => /\ count = data.panelCount
              /\ Len(pages) = CeilDiv(count, perPage)
              /\ Len(CellsOf(pages)) = count
              /\ \A p \in 1..Len(pages) : pages[p].number = ToString(p)

\* Thirteen panels at four per page: four pages, the last one numbered 4 and
\* holding only panel 12 in the top left cell, and the PDF written.
C23_Witness ==
  /\ pc = "complete"
  /\ data.panelCount = 13
  /\ data.panelsPerPage = 4
  /\ Len(pdfDoc.pages) = 4
  /\ pdfDoc.pages[4].number = "4"
  /\ Len(pdfDoc.pages[4].cells) = 1
  /\ pdfDoc.pages[4].cells[1].path = finalImagePath(12)
  /\ pdfDoc.pages[3].cells[4].col = 1
  /\ pdfDoc.pages[3].cells[4].row = 1
  /\ files.pdf

\* A write with status 'completed' is in the job's write log.
CompletedWritten ==
  \E k \in 1..Len(writes) : "status" \in DOMAIN writes[k] /\ writes[k].status = "completed"

\* The cleanup callback has run to its end or to its catch block.
CleanupOver == cleanup \in {"ran", "failed"}

\* Nothing is left of the job's working directory tree.
ComicDirGone(f) == f.raw = {} /\ f.final = {} /\ f.meta = {}

\* C27: deferred cleanup is scheduled only after the job's completed write,
\* which is made without waiting for it; its callback runs later, after the
\* pipeline has ended and after the shorter job timeout has fired; a callback
\* that ends without a failure has deleted the upload, the PDF and the working
\* directory tree, one that fails has deleted nothing else than these; and
\* the callback never changes the job record or its write log.
C27_DeferredCleanup ==
  /\ [](cleanup # "unscheduled" => CompletedWritten /\ pc = "done")
  /\ [](CleanupOver => timer = "fired")
  /\ [](cleanup = "ran" => ~files.upload /\ ~files.pdf /\ ComicDirGone(files))
  /\ [][pc = "complete"
          => /\ pc' = "scheduleCleanup"
             /\ cleanup' = "unscheduled"
             /\ Job'.status = "completed"
             /\ Len(writes') = Len(writes) + 1]_vars
  /\ [][(cleanup = "unscheduled" /\ cleanup' # "unscheduled")
          => /\ cleanup' = "scheduled"
             /\ CompletedWritten
             /\ pc' = "done"
             /\ files' = files
             /\ jobStore' = jobStore]_vars
  /\ [][(cleanup = "scheduled" /\ cleanup' # "scheduled")
          => /\ CleanupOver'
             /\ timer = "fired"
             /\ jobStore' = jobStore
             /\ writes' = writes
             /\ files'.upload => files.upload
             /\ files'.pdf => files.pdf
             /\ files'.raw \subseteq files.raw
             /\ files'.final \subseteq files.final
             /\ files'.meta \subseteq files.meta]_vars
  /\ [][CleanupOver => cleanup' = cleanup /\ files' = files]_vars

\* A job made from an upload was completed and its cleanup ran to the end:
\* upload, PDF and panel files are gone and the record still says completed.
C27_Witness ==
  /\ cleanup = "ran"
  /\ data.filePath = UploadPath
  /\ pdfWrites = 1
  /\ ~files.upload
  /\ ~files.pdf
  /\ ComicDirGone(files)
  /\ Job.status = "completed"
  /\ Len(Job.result.panels) = 2

\* C26: when a job made from an uploaded file has failed and the route's
\* reaction to the promise of processComicJob is over, the route's handler
\* has run, which is where the upload is unlinked on a best-effort basis.
C26_RouteDeletesUploadOnFailure ==
  (/\ JobExists
   /\ Job.data.filePath # NoPath
   /\ Job.status = "failed"
   /\ race = "rejected"
   /\ route # "attached")
    => route = "handled"

\* A line that is one word: it holds no white space and is not empty.
SingleWord(line) == line # <<>> /\ \A p \in 1..Len(line) : ~IsSpace(line[p])

\* C25: for every dialogue text and every character budget, wrapDialogue
\* returns at least one and at most four lines, and a returned line is longer
\* than the budget only if it is a single word that is longer than the budget.
C25_WrapBounds ==
  wdOut.ran
    => /\ Len(wdOut.lines) >= 1
       /\ Len(wdOut.lines) <= 4
       /\ \A k \in 1..Len(wdOut.lines) :
            Len(wdOut.lines[k]) > wdIn.maxCharsPerLine => SingleWord(wdOut.lines[k])

\* Five one-letter words under a budget of one character: each word wraps to
\* its own line and only four lines are returned.
C25_Witness ==
  /\ wdOut.ran
  /\ wdIn.text = <<"a", " ", "a", " ", "a", " ", "a", " ", "a">>
  /\ wdIn.maxCharsPerLine = 1
  /\ wdOut.lines = <<<<"a">>, <<"a">>, <<"a">>, <<"a">>>>

\* The files that hold what job id wrote: panel images, sidecars and PDF.
FilesBy(w, id) == {p \in DOMAIN w.files : w.files[p].job = id}

\* C28: with the steps of several jobs interleaved in any order, a step of
\* one job leaves the record, the write log, the panel images, the sidecars
\* and the PDF of every other job as they were; and, in every state, each
\* job's sequence of record writes, its record and its files are those of the
\* same job taking the same events alone.
C28_JobsIsolated ==
  /\ [](\A id \in JobIds :
          /\ world.log[id] = alone[id].log[id]
          /\ world.store[id] = alone[id].store[id]
          /\ FilesBy(world, id) = FilesBy(alone[id], id)
          /\ \A p \in FilesBy(world, id) : world.files[p] = alone[id].files[p]
          /\ world.proc[id] = alone[id].proc[id]
          /\ \A other \in JobIds \ {id} : alone[id].log[other] = <<>>)
  /\ [][\A a \in JobIds, b \in JobIds :
          (a # b /\ hist'[a] # hist[a])
            => /\ CanTake(alone[a], a, hist'[a][Len(hist'[a])])
               /\ world'.store[b] = world.store[b]
               /\ world'.log[b] = world.log[b]
               /\ world'.proc[b] = world.proc[b]
               /\ FilesBy(world', b) = FilesBy(world, b)
               /\ \A p \in FilesBy(world, b) : world'.files[p] = world.files[p]]_vars

\* Job A has completed and its cleanup has run while job B is in the middle
\* of building its PDF: A's files are gone, B's panel image and sidecar are on
\* disk and B's record holds its panel.
C28_Witness ==
  /\ world.proc["jobA"].cleanup = "ran"
  /\ world.store["jobA"].status = "completed"
  /\ FilesBy(world, "jobA") = {}
  /\ world.proc["jobB"].pc = "pdfEmbed"
  /\ world.store["jobB"].status = "processing"
  /\ world.store["jobB"].stage = "building-pdf"
  /\ Len(world.store["jobB"].result.panels) = 1
  /\ PanelFile("jobB", finalImagePath(0)) \in FilesBy(world, "jobB")
  /\ PanelFile("jobB", ([base |-> baseName(0), ext |-> ".meta.json"])) \in FilesBy(world, "jobB")

\* ---- C31
\* Positions of the model's scenes that have a string visual and a string
\* dialogue_telugu.
ValidPositions ==
  {k \in 1..Len(gsIn.content.scenes) :
     /\ IsString(gsIn.content.scenes[k].visual)
     /\ IsString(gsIn.content.scenes[k].dialogue_telugu)}

\* The position of the j-th valid scene of the response.
NthValid(j) ==
  CHOOSE k \in ValidPositions : Cardinality({m \in ValidPositions : m <= k}) = j

\* C31: generateScript filters before it truncates.  On a response whose
\* scenes field is an array, it succeeds exactly when the response holds at
\* least panelCount valid scenes (a string visual and a string
\* dialogue_telugu), and then the j-th returned scene is the j-th valid scene
\* of the response, for j up to panelCount; so more than panelCount valid
\* scenes succeed with the extras dropped, and panelCount entries of which
\* one is invalid fail.
C31_FilterThenTruncate ==
  (gsOut.ran /\ gsIn.content.kind = "object" /\ gsIn.content.scenesIsArray)
    => /\ gsOut.ok <=> Cardinality(ValidPositions) >= gsIn.panelCount
       /\ gsOut.ok
            => /\ Len(gsOut.scenes) = gsIn.panelCount
               /\ \A j \in 1..gsIn.panelCount :
                    LET s == gsIn.content.scenes[NthValid(j)]
                    IN  /\ gsOut.scenes[j].visual = s.visual
                        /\ gsOut.scenes[j].dialogue_telugu = s.dialogue_telugu
                        /\ gsOut.scenes[j].title = s.title
       /\ (Len(gsIn.content.scenes) = gsIn.panelCount
             /\ Cardinality(ValidPositions) < gsIn.panelCount)
            => /\ ~gsOut.ok
               /\ gsOut.error = ScriptCountError(Cardinality(ValidPositions),
                                                 gsIn.panelCount)

\* generateScript succeeded on a response whose first scene is invalid and
\* whose next two are valid, with two scenes asked for: the invalid one is
\* dropped before the list is cut.
C31_Witness ==
  /\ gsOut.ran
  /\ gsOut.ok
  /\ gsIn.panelCount = 2
  /\ Len(gsIn.content.scenes) = 3
  /\ 1 \notin ValidPositions
  /\ ValidPositions = {2, 3}
  /\ gsOut.scenes[1].visual = gsIn.content.scenes[2].visual

\* ---- C32
\* The job's storyText is present and not blank.
HasText(d) == d.storyText.defined /\ d.storyText.words > 0

MissingInputErrors == {MkError("Missing PDF file"), MkError("Missing story text")}

\* C32: for job data as the route stores them (a file path only with an
\* uploaded PDF), getStoryText returns the job's storyText as it is, without
\* reading or extracting anything, when that text is present and not blank;
\* otherwise it goes on to read the provided file and extract its text; and
\* it fails with a missing-input error exactly when there is neither text nor
\* file.  The file is never read and the extraction never runs for a job
\* whose text is present.
C32_StoryTextResolution ==
  /\ [](/\ pc \in {"readFile", "extract"} => (~HasText(data) /\ data.filePath # NoPath)
        /\ (threwAt = "getStoryText" /\ UploadIsPdf(data))
             => /\ ~HasText(data)
                /\ data.filePath = NoPath
                /\ thrown \in MissingInputErrors)
  /\ [][(pc = "getStoryText" /\ UploadIsPdf(data))
          => IF HasText(data)
             THEN /\ pc' = "wordGuard"
                  /\ storyText' = data.storyText
                  /\ thrown' = NoError
             ELSE IF data.filePath # NoPath
                  THEN /\ pc' = "readFile"
                       /\ thrown' = NoError
                  ELSE /\ pc' = "threw"
                       /\ thrown' \in MissingInputErrors
                       /\ race = "pending"
                            => /\ Job'.status = "failed"
                               /\ Job'.result.error = thrown'.message]_vars

\* A job created from typed text (not normalised) has passed getStoryText:
\* the local storyText is that text, untouched, and neither the file read nor
\* the extraction was entered.
C32_Witness ==
  /\ pc = "wordGuard"
  /\ data.inputType = "text"
  /\ data.filePath = NoPath
  /\ HasText(data)
  /\ ~data.storyText.clean
  /\ storyText = data.storyText

\* ---- C33
\* The write-back of the cleaned text has been made.
DataWritten == \E k \in 1..Len(writes) : "data" \in DOMAIN writes[k]

\* C33: the step after a passed word-count guard sets the job's
\* data.storyText to the cleaned text (normalised whitespace, the same words)
\* and leaves every other field of the payload as it was; no other step of
\* the run changes the payload, so it is untouched when text resolution or
\* the guard fails; from the write-back on, the payload is the one the run
\* read, with storyText replaced by the cleaned text.
C33_WriteBackFrame ==
  /\ [](JobExists /\ Job.type = "comic" /\ pc \notin {"idle", "getJob"}
          => IF DataWritten
             THEN /\ Job.data = [data EXCEPT !.storyText = cleanedText]
                  /\ Job.data.storyText.defined
                  /\ Job.data.storyText.clean
                  /\ Job.data.storyText.words = storyText.words
                  /\ storyText.words <= MAX_WORDS
             ELSE Job.data = data)
  /\ [][JobExists
          => IF pc = "writeBack"
             THEN /\ Job'.data.storyText = cleanedText
                  /\ \A f \in DOMAIN Job.data \ {"storyText"} : Job'.data[f] = Job.data[f]
                  /\ DOMAIN Job'.data = DOMAIN Job.data
             ELSE Job'.data = Job.data]_vars

\* The cleaned text of a job whose typed text was not normalised has been
\* written back: the record holds the normalised text, the other fields are
\* those the run read.
C33_Witness ==
  /\ JobExists
  /\ DataWritten
  /\ ~data.storyText.clean
  /\ Job.data.storyText.clean
  /\ Job.data.storyText.words = 3
  /\ Job.data.panelCount = data.panelCount
  /\ Job.status = "processing"

\* ---- C34
\* The write at position g of the history sets stage generating-script.
IsScriptWrite(g) == "stage" \in DOMAIN writes[g] /\ writes[g].stage = "generating-script"

\* The write at position k carries a result with a summary.
HasSummary(k) == "result" \in DOMAIN writes[k] /\ "summary" \in DOMAIN writes[k].result

\* A panel has been recorded by a write after position g.
PanelRecordedAfter(g) ==
  \E k \in (g + 1)..Len(writes) :
    /\ "result" \in DOMAIN writes[k]
    /\ "panels" \in DOMAIN writes[k].result
    /\ writes[k].result.panels # <<>>

\* C34 (as stated): from the generating-script write until the first panel
\* is recorded, the job's result is the summary with an empty panel list.
C34_SummaryUntilFirstPanel ==
  \A g \in 1..Len(writes) :
    (IsScriptWrite(g) /\ ~PanelRecordedAfter(g))
      => /\ "result" \in DOMAIN Job
         /\ Job.result = [summary |-> summary, panels |-> <<>>]

\* C34 (amended): the generating-script write carries the story summary and
\* an empty panel list, and until the first panel is recorded the job's
\* result is exactly that, unless the job has been marked failed, which
\* replaces the result by the error; every later write that carries a
\* summary carries the same one.
C34_SummaryUntilFirstPanelOrFailure ==
  \A g \in 1..Len(writes) :
    IsScriptWrite(g)
      => /\ HasSummary(g)
         /\ writes[g].result = [summary |-> summary, panels |-> <<>>]
         /\ summary # ""
         /\ \A k \in (g + 1)..Len(writes) :
              HasSummary(k) => writes[k].result.summary = writes[g].result.summary
         /\ (Job.status # "failed" /\ ~PanelRecordedAfter(g))
              => /\ "result" \in DOMAIN Job
                 /\ Job.result = [summary |-> summary, panels |-> <<>>]

\* The script has been generated and the drawing stage written, no panel is
\* recorded yet: the record of the running job shows the summary and an empty
\* panel list.
C34_Witness ==
  /\ JobExists
  /\ Job.status = "processing"
  /\ Job.stage = "drawing-panels"
  /\ \E g \in 1..Len(writes) : IsScriptWrite(g) /\ ~PanelRecordedAfter(g)
  /\ Job.result = [summary |-> "summary of the story", panels |-> <<>>]

\* ---- C35
\* The whitespace-separated words of a text, in order: its maximal runs of
\* characters that are not white space.
WordsOf(t) ==
  LET Starts == {p \in 1..Len(t) : ~IsSpace(t[p]) /\ (p = 1 \/ IsSpace(t[p - 1]))}
      Start(k) == CHOOSE p \in Starts : Cardinality({q \in Starts : q <= p}) = k
      End(p) == CHOOSE e \in p..Len(t) :
                  /\ \A q \in p..e : ~IsSpace(t[q])
                  /\ e = Len(t) \/ IsSpace(t[e + 1])
  IN  [k \in 1..Cardinality(Starts) |-> SubSeq(t, Start(k), End(Start(k)))]

\* The words of a sequence of lines, read in order.
RECURSIVE WordsOfLines(_)
WordsOfLines(lines) ==
  IF lines = <<>> THEN <<>> ELSE WordsOf(Head(lines)) \o WordsOfLines(Tail(lines))

\* C35: wrapDialogue never splits or reorders words.  The words of the
\* returned lines, read in order, are a prefix of the words of the input, and
\* all of them when fewer than four lines are returned; every returned line
\* of a non-blank input is its words joined by single spaces; and an input
\* that is a single word longer than the budget gives exactly one line, that
\* word.
C35_WordsKept ==
  wdOut.ran
    => LET inWords == WordsOf(wdIn.text)
           outWords == WordsOfLines(wdOut.lines)
       IN  /\ Len(outWords) <= Len(inWords)
           /\ outWords = SubSeq(inWords, 1, Len(outWords))
           /\ Len(wdOut.lines) < 4 => outWords = inWords
           /\ inWords # <<>>
                => \A k \in 1..Len(wdOut.lines) :
                     LET line == wdOut.lines[k]
                     IN  /\ line # <<>>
                         /\ ~IsSpace(line[1])
                         /\ ~IsSpace(line[Len(line)])
                         /\ \A p \in 1..(Len(line) - 1) :
                              ~(IsSpace(line[p]) /\ IsSpace(line[p + 1]))
           /\ (Len(inWords) = 1 /\ Len(inWords[1]) > wdIn.maxCharsPerLine)
                => wdOut.lines = <<inWords[1]>>

\* A single word of four letters, with white space around it, under a budget
\* of three characters: one line, the word itself.
C35_Witness ==
  /\ wdOut.ran
  /\ wdIn.text = <<" ", "a", "b", "b", "a", " ">>
  /\ wdIn.maxCharsPerLine = 3
  /\ wdOut.lines = <<<<"a", "b", "b", "a">>>>

\* ---- C36
\* C36: the waits of a withRetry invocation are baseDelayMs, 2*baseDelayMs,
\* 4*baseDelayMs, ..., the k-th wait following the k-th failed attempt; there
\* is exactly one wait before each attempt after the first, and none after a
\* success or after the last failed attempt: an invocation that has returned
\* or thrown has waited one time less than it has called fn, and one that has
\* thrown has waited `retries` times.
C36_BackoffWaits ==
  retry.phase # "idle"
    => /\ Len(retry.waits) = IF retry.phase = "waiting" THEN retry.calls ELSE retry.calls - 1
       /\ Len(retry.waits) <= retry.retries
       /\ \A k \in 1..Len(retry.waits) :
            retry.waits[k] = IF k = 1 THEN retry.baseDelayMs ELSE 2 * retry.waits[k - 1]
       /\ retry.phase = "waiting" => retry.attempt = Len(retry.waits) - 1
       /\ retry.phase = "threw"
            => /\ Len(retry.waits) = retry.retries
               /\ retry.calls = retry.retries + 1
       /\ retry.phase = "returned" => Len(retry.waits) = retry.okAtCall - 1

\* withRetry with three retries and a base delay of 800 ms has failed four
\* times: it waited 800, 1600 and 3200 ms and threw without a fourth wait.
C36_Witness ==
  /\ retry.phase = "threw"
  /\ retry.retries = 3
  /\ retry.baseDelayMs = 800
  /\ retry.calls = 4
  /\ retry.waits = <<800, 1600, 3200>>

\* ---- C37
\* C37: once processComicJob has been started on an existing comic job, the
\* job record eventually shows status completed or failed, whether or not
\* the external calls and file operations of the run ever return.
C37_RunSettles ==
  (pc = "getJob" /\ JobExists /\ Job.type = "comic")
    ~> (JobExists /\ Job.status \in {"completed", "failed"})

\* The story analysis call has not returned and the timeout has fired: the
\* job is failed with the timeout message while the call is still pending.
C37_Witness ==
  /\ JobExists
  /\ Job.type = "comic"
  /\ pc = "analyze"
  /\ retry.phase = "calling"
  /\ timer = "fired"
  /\ Job.status = "failed"
  /\ Job.result.error = "Comic job timeout"

\* ---- C38
\* The job of a download or preview request is completed and its cleanup has
\* not run.
ServedJobReady(r) ==
  /\ r.id \in JobIds
  /\ world.store[r.id].status = "completed"
  /\ world.proc[r.id].cleanup \in {"unscheduled", "scheduled"}

\* C38 (PDF part): a download or preview request for a completed job whose
\* cleanup has not run is never answered 'Generated PDF not found', and when
\* the file can be read the answer is the PDF the pipeline wrote.
C38_PdfServedWhereWritten ==
  [][(resp' # resp /\ resp'.endpoint \in {"download", "preview"} /\ ServedJobReady(resp'))
       => /\ resp'.error # "Generated PDF not found"
          /\ resp'.status \in {200, 500}
          /\ resp'.status = 200 => resp'.body = world.files[pdfPath(resp'.id)]]_vars

\* C38 (panel part): for a completed job whose cleanup has not run, every
\* previewUrl of the job's panel list is the address of the panel endpoint for
\* the panel's index, and a request for that index is answered with the
\* panel's final image whenever the file can be read.
C38_PanelUrlsResolve ==
  /\ [](\A id \in JobIds :
          (world.store[id].status = "completed"
             /\ world.proc[id].cleanup \in {"unscheduled", "scheduled"})
            => \A k \in 1..Len(world.store[id].result.panels) :
                 LET panel == world.store[id].result.panels[k]
                 IN  /\ panel.previewUrl
                          = "/api/comic/" \o id \o "/panels/" \o ToString(panel.index)
                     /\ PanelFile(id, finalImagePath(panel.index)) \in DOMAIN world.files
                     /\ PanelGet(world, id, panel.index, TRUE).status = 200
                     /\ PanelGet(world, id, panel.index, TRUE).body
                          = [job |-> id, what |-> "final", n |-> panel.index])
  /\ [][(resp' # resp /\ resp'.endpoint = "panel" /\ ServedJobReady(resp')
           /\ \E k \in 1..Len(world.store[resp'.id].result.panels) :
                world.store[resp'.id].result.panels[k].index = resp'.panel)
          => /\ resp'.status \in {200, 500}
             /\ resp'.status = 200
                  => resp'.body = [job |-> resp'.id, what |-> "final", n |-> resp'.panel]]_vars

====
